---- MODULE Spec2Model ----
(***************************************************************************)
(* Model of the NEPSE data gateway: the sliding-window rate limiter        *)
(* (rate_limiter.py) and the transport bindings that call it (server.py,   *)
(* socketServer.py, zmqServer.py), the endpoint response cache             *)
(* (mcp_server.py), the composite aggregator and the symbol validator      *)
(* (validator.py).                                                         *)
(*                                                                         *)
(* Time is counted in ticks of 1/TicksPerSecond second, so that the        *)
(* truncation int(...) of the float clock is visible.                      *)
(***************************************************************************)
EXTENDS Integers, Sequences, FiniteSets, TLC

VARIABLES
    now,           \* time.time(), in ticks
    requests,      \* per process, SimpleRateLimiter.requests: ip -> endpoint -> deque of timestamps
    last_cleanup,  \* per process, SimpleRateLimiter.last_cleanup: ip -> last seen time (a dict)
    slots,         \* the requests being handled concurrently (coroutines suspended at an await)
    admitted,      \* history: per process, ip -> endpoint -> every timestamp admitted (never purged)
    last,          \* history: the last admit check made, with its outcome
    ncalls,        \* history: number of requests received so far (bounds the run)
    nrejected,     \* history: number of admit checks that rejected
    clock,         \* mcp_server.py: time.time(), in seconds
    endpoint_cache,\* mcp_server.py _endpoint_cache: path -> (data, expires_at), or absent
    call,          \* the fetch_nepse_api calls in progress, one per calling thread
    upstream,      \* the payload the upstream serves now (a version number)
    win,           \* history: per path, the last call that stored a payload: start, payload,
                   \*          and the upstream calls made by calls starting within its TTL
    lastFetch,     \* history: the last fetch_nepse_api call that ended, with its outcome
    lastOutcome,   \* history: per path, how the last ended call on it ended
    overlap,       \* history: per path, whether two calls on it ever ran at the same time
    nfetch,        \* history: number of calls started (bounds the run)
    agg,           \* one TradeTurnoverTransactionSubindices request: the binding that
                   \* serves it, the upstream lists fetched so far, and its result
    stockmap_file, \* the content of stockmap.json
    saving,        \* updateStocksMap.py: whether save_stock_map holds the file open for writing
    upd,           \* updateStocksMap.py: the step update_stock_map is at, what it fetched,
                   \* the file as the run found it, and how the run ended
    stock_data,    \* NepseValidator._stock_data: None until the first load
    stock_symbols, \* NepseValidator._stock_symbols: None, or the key set in its iteration order
    lastQuery,     \* history: the last validate_stock_symbol call, input and result
    keptQuery,     \* history: some earlier validate_stock_symbol call of the same process
    lastSearch,    \* history: the last find_symbol_by_company_name call: query, the data it
                   \* searched and result
    index_names,   \* NepseValidator._index_names: None until the first load
    lastIndexQuery,\* history: the last validate_index_name call, input and result
    lastInfo,      \* history: the last call of another query of the validator and its result,
                   \* or the last query that ended in an error of open()
    ws,            \* socketServer.py: one connection of ws_listener: the frames waiting,
                   \* the locals of the coroutine and what was sent
    zmq,           \* zmqServer.py: the loop of zmq_listener: its locals and its replies
    http,          \* history: the last HTTP request server.py answered, and the response
    mcp,           \* mcp_server.py tools: the market state the upstream reports, the cache
                   \* the tools read through, and the last tool call with its result
    paged          \* history: the last paginate_list call, its arguments and what it returned

cacheVars == <<clock, endpoint_cache, call, upstream, win, lastFetch, lastOutcome, overlap, nfetch>>

limiterVars == <<now, requests, last_cleanup, slots, admitted, last, ncalls, nrejected>>

aggVars == <<agg>>

valVars == <<stockmap_file, saving, upd, stock_data, stock_symbols, lastQuery, keptQuery, lastSearch,
            index_names, lastIndexQuery, lastInfo>>

connVars == <<ws, zmq, http, mcp>>

pageVars == <<paged>>

vars == <<limiterVars, cacheVars, aggVars, valVars, connVars, pageVars>>

\* what the processes other than the one an action belongs to own
otherThanLimiter == <<cacheVars, aggVars, valVars, connVars, pageVars>>
otherThanCache == <<limiterVars, aggVars, valVars, connVars, pageVars>>
otherThanAgg == <<limiterVars, cacheVars, valVars, connVars, pageVars>>
otherThanVal == <<limiterVars, cacheVars, aggVars, connVars, pageVars>>
otherThanConn == <<cacheVars, aggVars, valVars, pageVars>>
otherThanPage == <<limiterVars, cacheVars, aggVars, valVars, connVars>>

-----------------------------------------------------------------------------
(* Bounds of the model *)

TicksPerSecond == 2
MaxTime == 120          \* seconds
MaxCalls == 3
MaxIdle == 400          \* seconds

(* Configuration of the limiter, scaled down: rate_limiter.py configures    *)
(* 60/120/60/100/50/50 per minute and a sweep threshold of 1000 clients.    *)
LimitDefault == 2
LimitValidation == 2
LimitMarketData == 2
LimitWebsocket == 2
LimitWebsocketMessage == 1
LimitHealth == 1
cleanup_threshold == 1

(* Program constants *)
window_size == 60
cleanup_interval == 300

-----------------------------------------------------------------------------
(* Inputs *)

Clients == {"10.0.0.1", "10.0.0.2"}

\* request.url.path values the HTTP binding is exercised with
HttpPaths == {"/validate/stock/A", "/validate/stock/B"}

\* the paths p of the model with p.startswith("/validate")
StartsWithValidate == {"/validate/stock/A", "/validate/stock/B"}

\* the further paths the response headers are followed on
ServedPaths == {"/health", "/Summary", "/CompanyDetails"}

Endpoints == HttpPaths \cup ServedPaths \cup {"websocket_message", "websocket_connection"}

\* server.py and socketServer.py run as separate processes (start_servers.py), each
\* importing rate_limiter and so each with its own `rate_limiter` instance
LimiterProcs == {"server", "socketServer"}

window_ticks == window_size * TicksPerSecond
cleanup_ticks == cleanup_interval * TicksPerSecond

\* clock advances between two events: just under one window, exactly one window
TimeSteps == {window_ticks - 1, window_ticks}

\* the coroutines the event loop runs side by side
Slots == {1, 2}

NoCall == [called |-> FALSE]
Idle == [pc |-> "idle", proc |-> "none"]

-----------------------------------------------------------------------------
(* rate_limiter.py *)

limits ==
    [default |-> LimitDefault, validation |-> LimitValidation,
     market_data |-> LimitMarketData, websocket |-> LimitWebsocket,
     websocket_message |-> LimitWebsocketMessage, health |-> LimitHealth]

get_endpoint_category(endpoint) ==
    IF endpoint \in {"/health"} THEN "health"
    ELSE IF endpoint \in StartsWithValidate THEN "validation"
    ELSE IF endpoint \in {"/Summary", "/LiveMarket", "/PriceVolume", "/TopGainers", "/TopLosers"}
         THEN "market_data"
    ELSE IF endpoint = "websocket_connection" THEN "websocket"
    ELSE IF endpoint = "websocket_message" THEN "websocket_message"
    ELSE "default"

cleanup_old_requests_never(request_times, current_time) == request_times

cleanup_old_requests_once(request_times, current_time) ==
    IF request_times # <<>> /\ Head(request_times) < current_time - window_ticks
    THEN Tail(request_times) ELSE request_times

\* while request_times and request_times[0] < cutoff_time: popleft()
RECURSIVE cleanup_old_requests(_, _)
cleanup_old_requests(request_times, current_time) ==
    IF request_times # <<>> /\ Head(request_times) < current_time - window_ticks
    THEN cleanup_old_requests(Tail(request_times), current_time)
    ELSE request_times

ips_to_remove_inclusive(lc, current_time) ==
    {ip \in DOMAIN lc : lc[ip] <= current_time - cleanup_ticks}

\* the ips _cleanup_old_ips removes
ips_to_remove(lc, current_time) ==
    {ip \in DOMAIN lc : lc[ip] < current_time - cleanup_ticks}

\* _cleanup_old_ips: del self.requests[ip] (the defaultdict gives an empty one back)
cleanup_old_ips_requests(reqs, lc, current_time) ==
    [ip \in Clients |->
        IF ip \in ips_to_remove(lc, current_time)
        THEN [e \in Endpoints |-> <<>>] ELSE reqs[ip]]

cleanup_old_ips_last(lc, current_time) ==
    [ip \in (DOMAIN lc) \ ips_to_remove(lc, current_time) |-> lc[ip]]

\* self.last_cleanup[ip] = current_time
seen(lc, ip, current_time) ==
    [i \in (DOMAIN lc) \cup {ip} |-> IF i = ip THEN current_time ELSE lc[i]]

over_limit_off_by_one(current_count, limit) == current_count > limit

\* if current_count >= limit: return False, info
over_limit(current_count, limit) == current_count >= limit

Max(a, b) == IF a >= b THEN a ELSE b

record_always(request_times, current_time, reject) == Append(request_times, current_time)

\* lines 115-120: return False, info before the append, or request_times.append
record(request_times, current_time, reject) ==
    IF reject THEN request_times ELSE Append(request_times, current_time)

\* int(current_time + self.window_size), in seconds
reset_time(current_time) == (current_time + window_ticks) \div TicksPerSecond

\* The state of the limiter after lines 89-101 of is_allowed: the window purged,
\* the client marked seen, the sweep run when more than the threshold are tracked.
purged_requests(reqs, lc, ip, endpoint, current_time) ==
    LET r1 == [reqs EXCEPT ![ip][endpoint] = cleanup_old_requests(@, current_time)]
        l1 == seen(lc, ip, current_time)
    IN IF Cardinality(DOMAIN l1) > cleanup_threshold
       THEN cleanup_old_ips_requests(r1, l1, current_time) ELSE r1

purged_last(lc, ip, current_time) ==
    LET l1 == seen(lc, ip, current_time)
    IN IF Cardinality(DOMAIN l1) > cleanup_threshold
       THEN cleanup_old_ips_last(l1, current_time) ELSE l1

\* is_allowed(ip, endpoint) at time current_time, from limiter state (reqs, lc):
\* the outcome, the info dict and the limiter state it leaves.
is_allowed(reqs, lc, ip, endpoint, current_time) ==
    LET category == get_endpoint_category(endpoint)
        limit == limits[category]
        r2 == purged_requests(reqs, lc, ip, endpoint, current_time)
        l2 == purged_last(lc, ip, current_time)
        current_count == Len(r2[ip][endpoint])
        reject == over_limit(current_count, limit)
        r3 == [r2 EXCEPT ![ip][endpoint] = record(@, current_time, reject)]
    IN [allowed |-> ~reject,
        info |-> [limit |-> limit,
                  remaining |-> IF reject THEN Max(0, limit - current_count)
                                ELSE Max(0, limit - Len(r3[ip][endpoint])),
                  reset_time |-> reset_time(current_time),
                  category |-> category],
        requests |-> r3,
        last_cleanup |-> l2]

-----------------------------------------------------------------------------
(* The transport bindings.  Every handler is a coroutine on one event loop:  *)
(* it runs without interruption up to its next await.                        *)

\* is_allowed is a plain def with no await in it: a coroutine that calls it is
\* not suspended between the count check (line 115) and the append (line 120).
suspends_inside_is_allowed_yes == TRUE

suspends_inside_is_allowed == FALSE

\* history: the admitted requests of (ip, endpoint) in the window ending at t
InWindow(times, t) == {i \in 1..Len(times) : times[i] >= t - window_ticks /\ times[i] <= t}

\* slot s is the first free one: the model follows at most Cardinality(Slots)
\* suspended handlers at a time
FreeSlot(s) ==
    /\ slots[s] = Idle
    /\ \A r \in Slots : r < s => slots[r] # Idle

\* check_rate_limit(ip, endpoint) by the handler in slot s of process proc, which
\* then either answers at once (rejected, or nothing to dispatch) or goes on to
\* the await that follows the check.
AdmitCheck(s, proc, ip, endpoint, dispatches) ==
    LET res == is_allowed(requests[proc], last_cleanup[proc], ip, endpoint, now)
        held == res.allowed /\ suspends_inside_is_allowed
    IN /\ ncalls < MaxCalls
       /\ (res.allowed /\ (dispatches \/ held)) => FreeSlot(s)
       /\ requests' = [requests EXCEPT ![proc] =
                         IF held
                         THEN purged_requests(requests[proc], last_cleanup[proc],
                                              ip, endpoint, now)
                         ELSE res.requests]
       /\ last_cleanup' = [last_cleanup EXCEPT ![proc] = res.last_cleanup]
       /\ admitted' = IF res.allowed
                      THEN [admitted EXCEPT ![proc][ip][endpoint] = Append(@, now)]
                      ELSE admitted
       /\ nrejected' = IF res.allowed THEN nrejected ELSE nrejected + 1
       /\ last' = [called |-> TRUE, proc |-> proc, ip |-> ip,
                   endpoint |-> endpoint, time |-> now, allowed |-> res.allowed,
                   info |-> res.info,
                   prior |-> Cardinality(InWindow(admitted[proc][ip][endpoint], now))]
       /\ slots' = IF held
                   THEN [slots EXCEPT ![s] =
                            [pc |-> "in_is_allowed", proc |-> proc, ip |-> ip,
                             endpoint |-> endpoint, checks |-> 1, time |-> now,
                             dispatches |-> dispatches]]
                   ELSE IF res.allowed /\ dispatches
                   THEN [slots EXCEPT ![s] =
                            [pc |-> "handling", proc |-> proc, ip |-> ip,
                             endpoint |-> endpoint, checks |-> 1]]
                   ELSE slots
       /\ ncalls' = ncalls + 1

\* a handler suspended at an await runs on: is_allowed appends and returns, or the
\* route handler returns and the response is sent
Resume(s) ==
    IF slots[s].pc = "in_is_allowed"
    THEN /\ requests' = [requests EXCEPT ![slots[s].proc][slots[s].ip][slots[s].endpoint] =
                                Append(@, slots[s].time)]
         /\ slots' = [slots EXCEPT ![s] =
                        IF slots[s].dispatches
                        THEN [pc |-> "handling", proc |-> slots[s].proc,
                              ip |-> slots[s].ip, endpoint |-> slots[s].endpoint,
                              checks |-> 1]
                        ELSE Idle]
         /\ UNCHANGED <<now, last_cleanup, admitted, last, ncalls, nrejected>>
    ELSE /\ slots' = [slots EXCEPT ![s] = Idle]
         /\ UNCHANGED <<now, requests, last_cleanup, admitted, last, ncalls, nrejected>>

\* server.py rate_limit_middleware, up to `await call_next(request)` or the 429
HttpRequest(s, ip, path) ==
    /\ UNCHANGED otherThanLimiter
    /\ AdmitCheck(s, "server", ip, path, TRUE)
    /\ UNCHANGED now

\* server.py rate_limit_middleware, after call_next: headers added, response returned
HttpRespond(s) ==
    /\ UNCHANGED otherThanLimiter
    /\ slots[s].pc # "idle"
    /\ slots[s].proc = "server"
    /\ Resume(s)

\* socketServer.py ws_listener, one message: the check, json.loads, up to
\* `await handle_route(route, params)`; parses says whether json.loads succeeds
WsMessage(s, ip, parses) ==
    /\ UNCHANGED otherThanLimiter
    /\ AdmitCheck(s, "socketServer", ip, "websocket_message", parses)
    /\ UNCHANGED now

\* socketServer.py ws_listener: handle_route returned, the response is sent
WsRespond(s) ==
    /\ UNCHANGED otherThanLimiter
    /\ slots[s].pc # "idle"
    /\ slots[s].proc = "socketServer"
    /\ Resume(s)

\* zmqServer.py zmq_listener: recv_json, then `await handle_route(route, params)`
ZmqMessage(s) ==
    /\ UNCHANGED otherThanLimiter
    /\ ncalls < MaxCalls
    /\ FreeSlot(s)
    /\ \A r \in DOMAIN slots : slots[r].proc # "zmqServer"
    /\ slots' = [slots EXCEPT ![s] =
                    [pc |-> "handling", proc |-> "zmqServer", ip |-> "none",
                     endpoint |-> "none", checks |-> 0]]
    /\ ncalls' = ncalls + 1
    /\ UNCHANGED <<now, requests, last_cleanup, admitted, last, nrejected>>

\* zmqServer.py zmq_listener: send_json(response)
ZmqReply(s) ==
    /\ UNCHANGED otherThanLimiter
    /\ slots[s].pc # "idle"
    /\ slots[s].proc = "zmqServer"
    /\ Resume(s)

\* the clock moves on
Advance(d) ==
    /\ UNCHANGED otherThanLimiter
    /\ now + d <= MaxTime * TicksPerSecond
    /\ now' = now + d
    /\ UNCHANGED <<requests, last_cleanup, slots, admitted, last, ncalls, nrejected>>

\* a pause long enough for a client to count as idle: exactly the cleanup
\* interval, after which a further TimeSteps step makes it more than that
Elapse(d) ==
    /\ UNCHANGED otherThanLimiter
    /\ now + d <= MaxIdle * TicksPerSecond
    /\ now' = now + d
    /\ UNCHANGED <<requests, last_cleanup, slots, admitted, last, ncalls, nrejected>>

InitLimiter ==
    /\ now = 0
    /\ requests = [p \in LimiterProcs |-> [ip \in Clients |-> [e \in Endpoints |-> <<>>]]]
    /\ last_cleanup = [p \in LimiterProcs |-> <<>>]
    /\ slots = [s \in Slots |-> Idle]
    /\ admitted = [p \in LimiterProcs |-> [ip \in Clients |-> [e \in Endpoints |-> <<>>]]]
    /\ last = NoCall
    /\ ncalls = 0
    /\ nrejected = 0

NextLimiter ==
    \/ \E s \in Slots, ip \in Clients, path \in HttpPaths : HttpRequest(s, ip, path)
    \/ \E s \in Slots : HttpRespond(s)
    \/ \E s \in Slots, ip \in Clients, parses \in BOOLEAN : WsMessage(s, ip, parses)
    \/ \E s \in Slots : WsRespond(s)
    \/ \E s \in Slots : ZmqMessage(s)
    \/ \E s \in Slots : ZmqReply(s)
    \/ \E d \in TimeSteps : Advance(d)

\* check_rate_limit(ip, endpoint) of a process, whatever its caller does next
CheckRateLimit(proc, ip, endpoint) ==
    /\ UNCHANGED otherThanLimiter
    /\ AdmitCheck(1, proc, ip, endpoint, FALSE)
    /\ UNCHANGED now

\* check_websocket_rate_limit(ip): is_allowed(ip, "websocket_connection"); no
\* binding calls it, it is there for whoever imports rate_limiter
CheckWebsocketRateLimit(proc, ip) ==
    /\ UNCHANGED otherThanLimiter
    /\ AdmitCheck(1, proc, ip, "websocket_connection", FALSE)
    /\ UNCHANGED now

\* the limiter of both servers followed over pauses longer than the cleanup interval
NextSweep ==
    \/ \E ip \in Clients, path \in HttpPaths : CheckRateLimit("server", ip, path)
    \/ \E ip \in Clients : CheckRateLimit("socketServer", ip, "websocket_message")
    \/ \E ip \in Clients : CheckWebsocketRateLimit("socketServer", ip)
    \/ \E d \in {window_ticks - 1, cleanup_ticks} : Elapse(d)

-----------------------------------------------------------------------------
(* mcp_server.py: the endpoint response cache *)

ENDPOINT_CACHE_TTL == 600

MaxClock == 1200
MaxFetches == 2
MaxVersion == 1

Paths == {"/Summary", "/IsNepseOpen"}
Callers == {"t1", "t2"}

\* clock advances between two events: just under one TTL, exactly one TTL
ClockSteps == {ENDPOINT_CACHE_TTL - 1, ENDPOINT_CACHE_TTL}

MaxRaceFetches == 3    \* calls made in a run of callers racing for one path
RacePath == "/Summary"

None == [none |-> TRUE]
NotCalling == [pc |-> "idle"]

expires_at_no_ttl(start) == start

\* (data, now + _ENDPOINT_CACHE_TTL), now being read at the start of the call
expires_at(start) == start + ENDPOINT_CACHE_TTL

fresh_inclusive(start, expiry) == start <= expiry

\* if now < expires_at: return data
fresh(start, expiry) == start < expiry

cache_after_failure_negative(cache, path, start) ==
    [cache EXCEPT ![path] = [data |-> -1, expires_at |-> expires_at(start), born |-> start]]

\* response.raise_for_status() / response.json() raise before the second
\* `with _endpoint_cache_lock:` is reached
cache_after_failure(cache, path, start) == cache

\* history: how a call ended; start is the clock reading it took on entry,
\* returned the clock when it left its last locked block or raised
Ended(c, outcome, payload) ==
    [done |-> TRUE, caller |-> c, path |-> call[c].path, start |-> call[c].now,
     outcome |-> outcome, payload |-> payload,
     opened |-> call[c].opened, prev |-> call[c].prev, served |-> None,
     returned |-> clock]

\* fetch_nepse_api(endpoint) is entered: now = time.time()
Start(c, path) ==
    /\ UNCHANGED otherThanCache
    /\ call[c].pc = "idle"
    /\ nfetch < MaxFetches
    /\ call' = [call EXCEPT ![c] =
                  [pc |-> "lookup", path |-> path, now |-> clock, data |-> None,
                   opened |-> win[path], prev |-> lastOutcome[path]]]
    /\ overlap' = [overlap EXCEPT ![path] =
                     @ \/ \E o \in Callers \ {c} : call[o].pc # "idle" /\ call[o].path = path]
    /\ nfetch' = nfetch + 1
    /\ UNCHANGED <<clock, endpoint_cache, upstream, win, lastFetch, lastOutcome>>

\* fetch_nepse_api is entered for the one path that callers race for
StartRace(c) ==
    /\ UNCHANGED otherThanCache
    /\ call[c].pc = "idle"
    /\ nfetch < MaxRaceFetches
    /\ call' = [call EXCEPT ![c] =
                  [pc |-> "lookup", path |-> RacePath, now |-> clock, data |-> None,
                   opened |-> win[RacePath], prev |-> lastOutcome[RacePath]]]
    /\ overlap' = [overlap EXCEPT ![RacePath] =
                     @ \/ \E o \in Callers \ {c} : call[o].pc # "idle" /\ call[o].path = RacePath]
    /\ nfetch' = nfetch + 1
    /\ UNCHANGED <<clock, endpoint_cache, upstream, win, lastFetch, lastOutcome>>

\* `del _endpoint_cache[cache_key]` reached whatever the lookup found: a mutation
\* of reaches_del
reaches_del_unguarded(cached, start) ==
    IF cached = None THEN TRUE ELSE ~fresh(start, cached.expires_at)

\* `if cached:` ... `else: del _endpoint_cache[cache_key]`: the del is reached
\* only with an entry in hand that has expired
reaches_del(cached, start) == cached # None /\ ~fresh(start, cached.expires_at)

\* the first `with _endpoint_cache_lock:` block: a fresh entry is returned, an
\* expired one deleted
Lookup(c) ==
    /\ UNCHANGED otherThanCache
    /\ call[c].pc = "lookup"
    /\ LET path == call[c].path
           cached == endpoint_cache[path]
       IN IF cached # None /\ fresh(call[c].now, cached.expires_at)
          THEN /\ call' = [call EXCEPT ![c] = NotCalling]
               /\ lastFetch' = [Ended(c, "hit", cached.data) EXCEPT !.served = cached]
               /\ lastOutcome' = [lastOutcome EXCEPT ![path] = "hit"]
               /\ UNCHANGED endpoint_cache
          ELSE IF reaches_del(cached, call[c].now)
          THEN IF endpoint_cache[path] # None
               THEN /\ call' = [call EXCEPT ![c].pc = "upstream"]
                    /\ endpoint_cache' = [endpoint_cache EXCEPT ![path] = None]
                    /\ UNCHANGED <<lastFetch, lastOutcome>>
               ELSE \* del of a key the dict does not hold: KeyError
                    /\ call' = [call EXCEPT ![c] = NotCalling]
                    /\ lastFetch' = Ended(c, "KeyError", None)
                    /\ lastOutcome' = [lastOutcome EXCEPT ![path] = "error"]
                    /\ UNCHANGED endpoint_cache
          ELSE /\ call' = [call EXCEPT ![c].pc = "upstream"]
               /\ UNCHANGED <<endpoint_cache, lastFetch, lastOutcome>>
    /\ UNCHANGED <<clock, upstream, win, overlap, nfetch>>

\* history: one more upstream call by a call that started within the TTL of the
\* last stored payload of its path
Counted(c) ==
    LET path == call[c].path
    IN IF win[path] # None /\ call[c].now >= win[path].start
          /\ call[c].now < win[path].start + ENDPOINT_CACHE_TTL
       THEN [win EXCEPT ![path].ups = @ + 1] ELSE win

\* httpx.get, raise_for_status and response.json() succeed
UpstreamOk(c) ==
    /\ UNCHANGED otherThanCache
    /\ call[c].pc = "upstream"
    /\ call' = [call EXCEPT ![c].pc = "store", ![c].data = upstream]
    /\ win' = Counted(c)
    /\ UNCHANGED <<clock, endpoint_cache, upstream, lastFetch, lastOutcome, overlap, nfetch>>

\* httpx.get raises, or raise_for_status (non-2xx), or response.json() (malformed)
UpstreamFail(c) ==
    /\ UNCHANGED otherThanCache
    /\ call[c].pc = "upstream"
    /\ call' = [call EXCEPT ![c] = NotCalling]
    /\ endpoint_cache' = cache_after_failure(endpoint_cache, call[c].path, call[c].now)
    /\ win' = Counted(c)
    /\ lastFetch' = Ended(c, "error", None)
    /\ lastOutcome' = [lastOutcome EXCEPT ![call[c].path] = "error"]
    /\ UNCHANGED <<clock, upstream, overlap, nfetch>>

\* the second `with _endpoint_cache_lock:` block, and `return data`
Store(c) ==
    /\ UNCHANGED otherThanCache
    /\ call[c].pc = "store"
    /\ LET path == call[c].path
       IN /\ endpoint_cache' = [endpoint_cache EXCEPT ![path] =
                                  [data |-> call[c].data,
                                   expires_at |-> expires_at(call[c].now),
                                   born |-> call[c].now]]
          /\ win' = [win EXCEPT ![path] =
                       [start |-> call[c].now, payload |-> call[c].data, ups |-> 1]]
          /\ lastOutcome' = [lastOutcome EXCEPT ![path] = "fetched"]
    /\ lastFetch' = Ended(c, "fetched", call[c].data)
    /\ call' = [call EXCEPT ![c] = NotCalling]
    /\ UNCHANGED <<clock, upstream, overlap, nfetch>>

\* the upstream data source publishes new data
Publish ==
    /\ UNCHANGED otherThanCache
    /\ upstream < MaxVersion
    /\ upstream' = upstream + 1
    /\ UNCHANGED <<clock, endpoint_cache, call, win, lastFetch, lastOutcome, overlap, nfetch>>

Tick(d) ==
    /\ UNCHANGED otherThanCache
    /\ clock + d <= MaxClock
    /\ clock' = clock + d
    /\ UNCHANGED <<endpoint_cache, call, upstream, win, lastFetch, lastOutcome, overlap, nfetch>>

InitCache ==
    /\ clock = 0
    /\ endpoint_cache = [p \in Paths |-> None]
    /\ call = [c \in Callers |-> NotCalling]
    /\ upstream = 0
    /\ win = [p \in Paths |-> None]
    /\ lastFetch = [done |-> FALSE]
    /\ lastOutcome = [p \in Paths |-> "none"]
    /\ overlap = [p \in Paths |-> FALSE]
    /\ nfetch = 0

NextCache ==
    \/ \E c \in Callers, p \in Paths : Start(c, p)
    \/ \E c \in Callers : Lookup(c)
    \/ \E c \in Callers : UpstreamOk(c)
    \/ \E c \in Callers : UpstreamFail(c)
    \/ \E c \in Callers : Store(c)
    \/ Publish
    \/ \E d \in ClockSteps : Tick(d)

\* threads calling fetch_nepse_api for the same path
NextCacheRace ==
    \/ \E c \in Callers : StartRace(c)
    \/ \E c \in Callers : Lookup(c)
    \/ \E c \in Callers : UpstreamOk(c)
    \/ \E c \in Callers : UpstreamFail(c)
    \/ \E c \in Callers : Store(c)
    \/ Publish
    \/ \E d \in ClockSteps : Tick(d)

-----------------------------------------------------------------------------
(* The composite aggregator: getTradeTurnoverTransactionSubindices (server.py)  *)
(* and _get_trade_turnover_transaction_subindices (socketServer.py,             *)
(* zmqServer.py).  The fields a company only passes through (securityName,      *)
(* instrumentType, lastUpdatedDateTime, percentageChange) are left out.         *)

Bindings == {"server", "socketServer", "zmqServer"}

\* what the upstream may answer to each of the eight fetches, in the order made
CompanyRecords ==
    {[symbol |-> "NABIL", sectorName |-> "Finance"],
     [symbol |-> "GUFL", sectorName |-> "Finance"],
     [symbol |-> "NHPC", sectorName |-> "Hydro Power"],
     [symbol |-> "NABIL", sectorName |-> "Corporate Debenture"]}

CompanyLists ==
    {<<>>} \cup {<<a>> : a \in CompanyRecords}
           \cup {<<a, b>> : <<a, b>> \in CompanyRecords \X CompanyRecords}
           \cup {<<[symbol |-> "NABIL", sectorName |-> "Finance"],
                    [symbol |-> "GUFL", sectorName |-> "Finance"],
                    [symbol |-> "NHPC", sectorName |-> "Hydro Power"]>>}

TurnoverLists ==
    {<<>>,
     <<[symbol |-> "NABIL", turnover |-> 100], [symbol |-> "GUFL", turnover |-> 50],
       [symbol |-> "NHPC", turnover |-> 30]>>,
     <<[symbol |-> "NABIL", turnover |-> 100], [symbol |-> "NABIL", turnover |-> 60]>>,
     <<[symbol |-> "NABIL"], [symbol |-> "NHPC", turnover |-> 30]>>}

TransactionLists ==
    {<<>>,
     <<[symbol |-> "NABIL", totalTrades |-> 7], [symbol |-> "GUFL", totalTrades |-> 3]>>}

TradeLists ==
    {<<>>,
     <<[symbol |-> "GUFL", shareTraded |-> 9]>>,
     <<[symbol |-> "NABIL", shareTraded |-> 20], [symbol |-> "NHPC", shareTraded |-> 4]>>}

GainersLists ==
    {<<>>,
     <<[symbol |-> "NABIL", ltp |-> 10, pointChange |-> 2]>>,
     <<[symbol |-> "NABIL", ltp |-> 0, pointChange |-> 0]>>,
     <<[symbol |-> "NABIL", ltp |-> 10, pointChange |-> 2],
       [symbol |-> "GUFL", ltp |-> 12, pointChange |-> 1]>>}

LosersLists ==
    {<<>>,
     <<[symbol |-> "GUFL", ltp |-> 8, pointChange |-> -1]>>,
     <<[symbol |-> "NABIL", ltp |-> 9, pointChange |-> -3],
       [symbol |-> "NHPC", ltp |-> 4, pointChange |-> -1]>>}

PriceVolumeLists ==
    {<<>>,
     <<[symbol |-> "NABIL", previousClose |-> 5], [symbol |-> "GUFL", previousClose |-> 6],
       [symbol |-> "NHPC", previousClose |-> 3]>>,
     <<[symbol |-> "NABIL", previousClose |-> 0], [symbol |-> "GUFL", previousClose |-> 6],
       [symbol |-> "NHPC", previousClose |-> 3]>>,
     <<[symbol |-> "NABIL", previousClose |-> 5], [symbol |-> "GUFL"]>>}

SubIndexLists ==
    {<<[index |-> "Finance Index", currentValue |-> 1800],
       [index |-> "HydroPower Index", currentValue |-> 2500]>>,
     <<[index |-> "Finance Index", currentValue |-> 1800]>>,
     <<[index |-> "Finance Index", currentValue |-> 1800],
       [index |-> "Corporate Debenture", currentValue |-> 100]>>}

Fetches == <<CompanyLists, TurnoverLists, TransactionLists, TradeLists,
             GainersLists, LosersLists, PriceVolumeLists, SubIndexLists>>

sector_mapper ==
    ("Commercial Banks" :> "Banking SubIndex") @@
    ("Development Banks" :> "Development Bank Index") @@
    ("Finance" :> "Finance Index") @@
    ("Hotels And Tourism" :> "Hotels And Tourism Index") @@
    ("Hydro Power" :> "HydroPower Index") @@
    ("Investment" :> "Investment Index") @@
    ("Life Insurance" :> "Life Insurance") @@
    ("Manufacturing And Processing" :> "Manufacturing And Processing") @@
    ("Microfinance" :> "Microfinance Index") @@
    ("Mutual Fund" :> "Mutual Fund") @@
    ("Non Life Insurance" :> "Non Life Insurance") @@
    ("Others" :> "Others Index") @@
    ("Tradings" :> "Trading Index")

\* {obj[key]: obj for obj in objs}: a later object replaces an earlier one
RECURSIVE dict_by(_, _)
dict_by(objs, key) ==
    IF objs = <<>> THEN <<>>
    ELSE LET obj == objs[Len(objs)]
             rest == dict_by(SubSeq(objs, 1, Len(objs) - 1), key)
         IN [k \in (DOMAIN rest) \cup {obj[key]} |-> IF k = obj[key] THEN obj ELSE rest[k]]

\* d.get(k, {}).get(field, 0)
get_get(d, k, field) ==
    IF k \in DOMAIN d /\ field \in DOMAIN d[k] THEN d[k][field] ELSE 0

\* company_details as it stands when the filter is reached
company_details(symbol, companies, turnover, transaction, trade, gainers, losers, price_vol_info) ==
    LET mover == IF symbol \in DOMAIN gainers THEN gainers[symbol]
                 ELSE IF symbol \in DOMAIN losers THEN losers[symbol]
                 ELSE [pointChange |-> 0, ltp |-> 0]
    IN [symbol |-> symbol,
        sector |-> companies[symbol].sectorName,
        Turnover |-> get_get(turnover, symbol, "turnover"),
        transaction |-> get_get(transaction, symbol, "totalTrades"),
        volume |-> get_get(trade, symbol, "shareTraded"),
        previousClose |-> get_get(price_vol_info, symbol, "previousClose"),
        pointChange |-> mover.pointChange,
        ltp |-> mover.ltp]

\* a filter that drops a scrip only when both fields are zero
not_trading_both_zero(details) == details.ltp = 0 /\ details.previousClose = 0

\* if company_details["ltp"] == 0 or company_details["previousClose"] == 0: continue
not_trading(details) == details.ltp = 0 \/ details.previousClose = 0

build_scrips_details(companies, turnover, transaction, trade, gainers, losers, price_vol_info) ==
    LET det(symbol) == company_details(symbol, companies, turnover, transaction, trade,
                                       gainers, losers, price_vol_info)
    IN [symbol \in {x \in DOMAIN companies : ~not_trading(det(x))} |-> det(symbol)]

\* a rollup without the sector test: every scrip counts towards every sector
RECURSIVE sector_total_of_all_companies(_, _, _, _)
sector_total_of_all_companies(scrips_details, symbols, sector, field) ==
    IF symbols = {} THEN 0
    ELSE LET x == CHOOSE y \in symbols : TRUE
         IN scrips_details[x][field]
            + sector_total_of_all_companies(scrips_details, symbols \ {x}, sector, field)

\* the inner loop of the sector rollup: total of one field over the scrips with
\* scrip_details["sector"] == sector
RECURSIVE sector_total(_, _, _, _)
sector_total(scrips_details, symbols, sector, field) ==
    IF symbols = {} THEN 0
    ELSE LET x == CHOOSE y \in symbols : TRUE
         IN (IF scrips_details[x].sector = sector THEN scrips_details[x][field] ELSE 0)
            + sector_total(scrips_details, symbols \ {x}, sector, field)

\* the sub-index label looked up for a sector, or "KeyError":
\* sector_mapper[sector] in server.py, sector_mapper.get(sector, sector) elsewhere
sector_label(binding, sector) ==
    IF sector \in DOMAIN sector_mapper THEN sector_mapper[sector]
    ELSE IF binding = "server" THEN "KeyError" ELSE sector

\* the whole aggregation over the eight fetched lists
aggregate(binding, got) ==
    LET companies == dict_by(got[1], "symbol")
        turnover == dict_by(got[2], "symbol")
        transaction == dict_by(got[3], "symbol")
        trade == dict_by(got[4], "symbol")
        gainers == dict_by(got[5], "symbol")
        losers == dict_by(got[6], "symbol")
        price_vol_info == dict_by(got[7], "symbol")
        sector_sub_indices == dict_by(got[8], "index")
        scrips_details == build_scrips_details(companies, turnover, transaction, trade,
                                               gainers, losers, price_vol_info)
        sectors == {companies[x].sectorName : x \in DOMAIN companies}
        raises == \E sector \in sectors :
                     \/ sector_label(binding, sector) = "KeyError"
                     \/ sector_label(binding, sector) \notin DOMAIN sector_sub_indices
    IN IF raises THEN [ok |-> FALSE, error |-> "KeyError"]
       ELSE [ok |-> TRUE,
             scripsDetails |-> scrips_details,
             sectorsDetails |->
                [sector \in sectors |->
                    [transaction |-> sector_total(scrips_details, DOMAIN scrips_details,
                                                  sector, "transaction"),
                     volume |-> sector_total(scrips_details, DOMAIN scrips_details,
                                             sector, "volume"),
                     totalTurnover |-> sector_total(scrips_details, DOMAIN scrips_details,
                                                    sector, "Turnover"),
                     turnover |-> sector_sub_indices[sector_label(binding, sector)],
                     sectorName |-> sector]]]

NoAgg == [pc |-> "idle"]

\* a request for the route reaches one of the bindings
AggRequest(binding) ==
    /\ UNCHANGED otherThanAgg
    /\ agg = NoAgg
    /\ agg' = [pc |-> "fetching", binding |-> binding, got |-> <<>>]

\* the next `await nepseAsync.get...()` returns its list
AggFetch(objs) ==
    /\ UNCHANGED otherThanAgg
    /\ agg.pc = "fetching"
    /\ Len(agg.got) < Len(Fetches)
    /\ objs \in Fetches[Len(agg.got) + 1]
    /\ agg' = [agg EXCEPT !.got = Append(@, objs)]

\* the rest of the function runs without an await, and returns or raises
AggCompute ==
    /\ UNCHANGED otherThanAgg
    /\ agg.pc = "fetching"
    /\ Len(agg.got) = Len(Fetches)
    /\ agg' = [pc |-> "done", binding |-> agg.binding, got |-> agg.got,
               result |-> aggregate(agg.binding, agg.got)]

InitAgg == agg = NoAgg

AllLists == UNION {Fetches[i] : i \in DOMAIN Fetches}

NextAgg ==
    \/ \E binding \in Bindings : AggRequest(binding)
    \/ \E objs \in AllLists : AggFetch(objs)
    \/ AggCompute

-----------------------------------------------------------------------------
(* The symbol validator (validator.py) and the file it loads, which            *)
(* updateStocksMap.py rewrites.  A string is a sequence of characters.         *)

MaxSymbolLen == 2

Chars == {"a", "A", "B", " "}

Whitespace == {" "}

Inputs == UNION {[1..n -> Chars] : n \in 0..MaxSymbolLen}

\* str.upper(), character by character
upper_char(c) == IF c = "a" THEN "A" ELSE c

upper(s) == [i \in 1..Len(s) |-> upper_char(s[i])]

\* str.strip(): drop the leading and the trailing whitespace
RECURSIVE lstrip(_)
lstrip(s) == IF s # <<>> /\ Head(s) \in Whitespace THEN lstrip(Tail(s)) ELSE s

RECURSIVE rstrip(_)
rstrip(s) ==
    IF s # <<>> /\ s[Len(s)] \in Whitespace THEN rstrip(SubSeq(s, 1, Len(s) - 1)) ELSE s

strip(s) == rstrip(lstrip(s))

\* str.startswith
startswith(s, prefix) ==
    Len(prefix) <= Len(s) /\ SubSeq(s, 1, Len(prefix)) = prefix

\* symbol[:2]
first_two(s) == IF Len(s) <= 2 THEN s ELSE SubSeq(s, 1, 2)

\* the cap of _get_similar_symbols (max_suggestions: int = 5), scaled down so that
\* a stock map of three symbols has more matches than the cap
max_suggestions == 2

Info(name, sector, internal) == [name |-> name, sector |-> sector, internalSector |-> internal]

\* the stockmap.json the repository ships, cut down to two companies: the keys in
\* the order of the file, and the object they map to
DeployedStockMap ==
    [keys |-> <<<<"A", "B">>, <<"B", "A">>>>,
     dict |->
        (<<"A", "B">> :> Info(<<"N", "e", "p", "a", "l", " ", "B", "a", "n", "k", " ", "L", "i", "m", "i", "t", "e", "d">>,
                              "Commercial Banks", "Banking SubIndex"))
        @@ (<<"B", "A">> :> Info(<<"T", "h", "e", " ", "N", "e", "p", " ", "C", "o", ".">>,
                                 "Finance", "Finance Index"))]

\* the file between open(STOCK_MAP_FILE, 'w') and the end of json.dump
Truncated == [state |-> "truncated"]

Written(stock_map) == [state |-> "written", dict |-> stock_map.dict, keys |-> stock_map.keys]

\* what open() and json.load leave in _stock_data when they return or raise one
\* of the two errors caught: the content of a file that parses, {} for a file
\* cut off in the middle of a write (json.JSONDecodeError).  Any other error of
\* open() or of the read is not caught: LoadRaises
load_stock_data(file) ==
    IF file.state = "written" THEN [dict |-> file.dict, keys |-> file.keys]
    ELSE [dict |-> <<>>, keys |-> <<>>]

\* _load_stock_data: `if self._stock_data is None:` guards the read of the file
load_if_none(held, file) == IF held = None THEN load_stock_data(file) ELSE held

\* the orders in which a set of that content can be iterated
Orders(S) == {f \in [1..Cardinality(S) -> S] : \A i, j \in DOMAIN f : i # j => f[i] # f[j]}

\* is_valid_stock_symbol: not symbol -> False, else symbol.upper() in the symbol set
is_valid_stock_symbol(symbols, symbol) ==
    /\ symbol # <<>>
    /\ \E i \in DOMAIN symbols : symbols[i] = upper(symbol)

\* get_stock_info
get_stock_info(data, symbols, symbol) ==
    IF ~is_valid_stock_symbol(symbols, symbol) THEN None
    ELSE IF upper(symbol) \in DOMAIN data.dict THEN data.dict[upper(symbol)] ELSE None

\* a loop that never stops collecting
RECURSIVE similar_without_cap(_, _, _)
similar_without_cap(symbols, prefix, n) ==
    IF n = 0 THEN <<>>
    ELSE LET before == similar_without_cap(symbols, prefix, n - 1)
         IN IF startswith(symbols[n], prefix) THEN Append(before, symbols[n])
            ELSE before

\* the loop of _get_similar_symbols over the first n symbols of the set
RECURSIVE similar(_, _, _)
similar(symbols, prefix, n) ==
    IF n = 0 THEN <<>>
    ELSE LET before == similar(symbols, prefix, n - 1)
         IN IF Len(before) >= max_suggestions THEN before
            ELSE IF startswith(symbols[n], prefix) THEN Append(before, symbols[n])
            ELSE before

\* _get_similar_symbols
get_similar_symbols(symbols, symbol) ==
    IF symbol = <<>> THEN <<>>
    ELSE similar(symbols, first_two(upper(symbol)), Len(symbols))

Required == [valid |-> FALSE, error |-> "Stock symbol is required", symbol |-> None]

\* validate_stock_symbol over the loaded data
validate_stock_symbol(data, symbols, input) ==
    IF input = <<>> THEN Required
    ELSE LET symbol == strip(upper(input))
         IN IF is_valid_stock_symbol(symbols, symbol)
            THEN [valid |-> TRUE, symbol |-> symbol,
                  info |-> get_stock_info(data, symbols, symbol)]
            ELSE [valid |-> FALSE,
                  error |-> <<"Stock symbol '", symbol, "' not found.">>,
                  symbol |-> symbol,
                  suggestions |-> get_similar_symbols(symbols, symbol)]

\* whether the call reaches _load_stock_data
reaches_load(input) == input # <<>> /\ strip(upper(input)) # <<>>

NoQuery == [asked |-> FALSE]

\* the symbol set as a list in its iteration order; nothing before the load
symbols_of(holder) == IF holder = None THEN <<>> ELSE holder.list

\* the iteration orders the symbol set can get when this call creates it
OrdersFor(input) ==
    IF stock_symbols = None /\ reaches_load(input)
    THEN Orders(DOMAIN (IF stock_data = None THEN load_stock_data(stockmap_file)
                        ELSE stock_data).dict)
    ELSE {<<>>}

\* the iteration orders the symbol set can get when a call that reaches
\* get_valid_stock_symbols (loads) creates it
OrdersIf(loads) ==
    IF stock_symbols = None /\ loads
    THEN Orders(DOMAIN (IF stock_data = None THEN load_stock_data(stockmap_file)
                        ELSE stock_data).dict)
    ELSE {<<>>}

\* get_valid_stock_symbols as a call that reaches it (loads) leaves the
\* validator: _stock_data read from the file and _stock_symbols built from its
\* keys, each only while it is None
LoadSymbols(loads, order) ==
    /\ stock_data' = IF loads THEN load_if_none(stock_data, stockmap_file) ELSE stock_data
    /\ stock_symbols' = IF stock_symbols = None /\ loads THEN [list |-> order]
                        ELSE stock_symbols

\* the call `name` reaches open() while _stock_data is None, and open() or the read
\* raises an error that `except FileNotFoundError` and `except json.JSONDecodeError`
\* do not catch (PermissionError, IsADirectoryError, UnicodeDecodeError, any
\* other OSError): it propagates to the caller, no attribute is assigned, and
\* the next call that gets here opens the file again
LoadRaises(name) ==
    /\ stock_data = None
    /\ lastInfo' = [asked |-> TRUE, call |-> name, result |-> [raises |-> "OSError"]]
    /\ UNCHANGED <<stock_data, stock_symbols, lastQuery, keptQuery, lastSearch, index_names,
                   lastIndexQuery>>

\* the rest of the validator's process: the file, the updater, the answers kept
valRest == <<stockmap_file, saving, upd, lastQuery, keptQuery, lastSearch, index_names,
             lastIndexQuery, lastInfo>>

\* one validate_stock_symbol call made while no other thread of the process is
\* inside the validator (the coroutines of server.py and socketServer.py, which
\* do not await inside it; a script): the lazy load of _stock_data and
\* _stock_symbols on the first call that looks a symbol up reads the file at one
\* instant and nothing runs between its steps.  The calls that mcp_server.py
\* makes on its tool threads are followed step by step (GetSymbols to Similar).
Validate(input) ==
    /\ UNCHANGED otherThanVal
    /\ UNCHANGED <<stockmap_file, saving, upd>>
    /\ \/ /\ \E order \in OrdersFor(input) :
              LET loads == reaches_load(input)
                  data == IF loads THEN load_if_none(stock_data, stockmap_file)
                          ELSE stock_data
              IN /\ stock_data' = data
                 /\ stock_symbols' = IF stock_symbols = None /\ loads THEN [list |-> order]
                                     ELSE stock_symbols
                 /\ lastQuery' = [asked |-> TRUE, input |-> input,
                                  result |-> validate_stock_symbol(stock_data',
                                                 symbols_of(stock_symbols'), input)]
          /\ keptQuery' \in {keptQuery, lastQuery}
          /\ UNCHANGED <<lastSearch, index_names, lastIndexQuery, lastInfo>>
       \/ reaches_load(input) /\ LoadRaises("validate_stock_symbol")

\* the symbols and company names of the fixtures
SymAA == <<"A", "A">>
SymAB == <<"A", "B">>
SymBA == <<"B", "A">>
SymABA == <<"A", "B", "A">>
NameNepalBank == <<"N", "e", "p", "a", "l", " ", "B", "a", "n", "k", " ", "L", "i", "m", "i", "t", "e", "d">>
NameNepCo == <<"T", "h", "e", " ", "N", "e", "p", " ", "C", "o", ".">>
NameNepaleseHydro == <<"N", "e", "p", "a", "l", "e", "s", "e", " ", "H", "y", "d", "r", "o", " ", "L", "t", "d">>
NameNepTrading ==
    <<"N", "e", "p", " ", "T", "r", "a", "d", "i", "n", "g", " ", "C", "o", "m", "p", "a", "n", "y", " ", "L", "i", "m", "i", "t", "e", "d">>

\* --- updateStocksMap.py ---

INTERNAL_SECTOR_MAP ==
    ("Commercial Banks" :> "Banking SubIndex")
    @@ ("Development Banks" :> "Development Bank Ind.")
    @@ ("Finance" :> "Finance Index")
    @@ ("Hotels And Tourism" :> "Hotels And Tourism")
    @@ ("Hydro Power" :> "HydroPower Index")
    @@ ("Investment" :> "Investment")
    @@ ("Life Insurance" :> "Life Insurance")
    @@ ("Manufacturing And Processing" :> "Manufacturing And Pr.")
    @@ ("Microfinance" :> "Microfinance Index")
    @@ ("Mutual Fund" :> "Mutual Fund")
    @@ ("NEPSE" :> "NEPSE Index")
    @@ ("Non Life Insurance" :> "Non Life Insurance")
    @@ ("Others" :> "Others Index")
    @@ ("Tradings" :> "Trading Index")
    @@ ("Promoter Share" :> "Promoter Share")

\* what /SecurityList can return: two active companies; three active ones, a
\* deleted one and an entry without a symbol; one company without a name; nothing
SecurityLists ==
    {<<[symbol |-> SymAB, securityName |-> NameNepalBank, activeStatus |-> "A"],
       [symbol |-> SymBA, securityName |-> NameNepCo, activeStatus |-> "A"]>>,
     <<[symbol |-> SymAA, securityName |-> NameNepaleseHydro, activeStatus |-> "A"],
       [symbol |-> SymAB, securityName |-> NameNepalBank, activeStatus |-> "A"],
       [symbol |-> SymBA, securityName |-> NameNepCo, activeStatus |-> "D"],
       [symbol |-> SymABA, securityName |-> NameNepTrading, activeStatus |-> "A"],
       [securityName |-> NameNepCo, activeStatus |-> "A"]>>,
     <<[symbol |-> SymBA, activeStatus |-> "A"]>>,
     <<>>}

\* what /SectorScrips can return: an object of sector -> symbols, as the pairs of
\* its items() with a flag telling that the value is a list; or a JSON value that
\* is no object
SectorDatas ==
    {[object |-> TRUE,
      items |-> <<<<"Commercial Banks", TRUE, <<SymAB>>>>, <<"Finance", TRUE, <<SymBA>>>>,
                  <<"Hydro Power", TRUE, <<SymAA>>>>, <<"Tradings", TRUE, <<SymABA>>>>,
                  <<"Promoter Share", FALSE, <<>>>>>>],
     [object |-> FALSE]}

\* create_symbol_sector_map over the first n items of the object
RECURSIVE create_symbol_sector_map(_, _)
create_symbol_sector_map(items, n) ==
    IF n = 0 THEN <<>>
    ELSE LET before == create_symbol_sector_map(items, n - 1)
             sector == items[n][1]
             symbols == items[n][3]
         IN IF items[n][2]
            THEN [symbol \in DOMAIN before \cup {symbols[i] : i \in DOMAIN symbols} |->
                    IF \E i \in DOMAIN symbols : symbols[i] = symbol THEN sector
                    ELSE before[symbol]]
            ELSE before

\* the test of create_stock_map: active, and with a non-empty symbol
listed(item) ==
    /\ "activeStatus" \in DOMAIN item /\ item.activeStatus = "A"
    /\ "symbol" \in DOMAIN item /\ item.symbol # <<>>

\* create_stock_map over the first n items of the security list
RECURSIVE create_stock_map(_, _, _)
create_stock_map(security_data, symbol_sector_map, n) ==
    IF n = 0 THEN [keys |-> <<>>, dict |-> <<>>]
    ELSE LET before == create_stock_map(security_data, symbol_sector_map, n - 1)
             item == security_data[n]
         IN IF ~listed(item) THEN before
            ELSE LET symbol == item.symbol
                     sector == IF symbol \in DOMAIN symbol_sector_map
                               THEN symbol_sector_map[symbol] ELSE "Unknown"
                     internal_sector == IF sector \in DOMAIN INTERNAL_SECTOR_MAP
                                        THEN INTERNAL_SECTOR_MAP[sector] ELSE "Others Index"
                     info == Info(IF "securityName" \in DOMAIN item THEN item.securityName
                                  ELSE symbol, sector, internal_sector)
                 IN [keys |-> IF symbol \in DOMAIN before.dict THEN before.keys
                              ELSE Append(before.keys, symbol),
                     dict |-> [k \in DOMAIN before.dict \cup {symbol} |->
                                IF k = symbol THEN info ELSE before.dict[k]]]

\* how a run of update_stock_map ends
Done(result, failed) ==
    [pc |-> "done", before |-> upd.before, fetched |-> upd.fetched,
     result |-> result, failed |-> failed]

\* a run of update_stock_map begins
UpdateStart ==
    /\ UNCHANGED otherThanVal
    /\ upd.pc \in {"idle", "done"}
    /\ upd' = [pc |-> "health", before |-> stockmap_file, fetched |-> 0]
    /\ UNCHANGED <<stockmap_file, saving, stock_data, stock_symbols, lastQuery, keptQuery,
                   lastSearch, index_names, lastIndexQuery, lastInfo>>

\* check_server_health answers; when it is False the run returns False
CheckServerHealth(healthy) ==
    /\ UNCHANGED otherThanVal
    /\ upd.pc = "health"
    /\ upd' = IF healthy THEN [upd EXCEPT !.pc = "security"] ELSE Done(FALSE, "health")
    /\ UNCHANGED <<stockmap_file, saving, stock_data, stock_symbols, lastQuery, keptQuery,
                   lastSearch, index_names, lastIndexQuery, lastInfo>>

\* fetch_security_list returns the list or raises
FetchSecurityList(ok, security_data) ==
    /\ UNCHANGED otherThanVal
    /\ upd.pc = "security"
    /\ upd' = IF ok
              THEN [pc |-> "sector", before |-> upd.before, fetched |-> upd.fetched + 1,
                    security_data |-> security_data]
              ELSE [Done(FALSE, "security") EXCEPT !.fetched = upd.fetched + 1]
    /\ UNCHANGED <<stockmap_file, saving, stock_data, stock_symbols, lastQuery, keptQuery,
                   lastSearch, index_names, lastIndexQuery, lastInfo>>

\* fetch_sector_data returns or raises; then create_symbol_sector_map and
\* create_stock_map run, and raise when the sector data is no object
FetchSectorData(ok, sector_data) ==
    /\ UNCHANGED otherThanVal
    /\ upd.pc = "sector"
    /\ upd' = IF ~ok THEN [Done(FALSE, "sector") EXCEPT !.fetched = upd.fetched + 1]
              ELSE IF ~sector_data.object
              THEN [Done(FALSE, "processing") EXCEPT !.fetched = upd.fetched + 1]
              ELSE [pc |-> "save", before |-> upd.before, fetched |-> upd.fetched + 1,
                    stock_map |->
                        create_stock_map(upd.security_data,
                            create_symbol_sector_map(sector_data.items,
                                                     Len(sector_data.items)),
                            Len(upd.security_data))]
    /\ UNCHANGED <<stockmap_file, saving, stock_data, stock_symbols, lastQuery, keptQuery,
                   lastSearch, index_names, lastIndexQuery, lastInfo>>

\* save_stock_map: open(STOCK_MAP_FILE, 'w') empties the file
OpenForWrite ==
    /\ ~saving
    /\ saving' = TRUE
    /\ stockmap_file' = Truncated

\* save_stock_map: json.dump and the end of the with block
DumpAndClose(stock_map) ==
    /\ saving
    /\ saving' = FALSE
    /\ stockmap_file' = Written(stock_map)

\* the run reaches save_stock_map and opens the file
RunSaveOpen ==
    /\ UNCHANGED otherThanVal
    /\ upd.pc = "save"
    /\ OpenForWrite
    /\ upd' = [upd EXCEPT !.pc = "dump"]
    /\ UNCHANGED <<stock_data, stock_symbols, lastQuery, keptQuery, lastSearch,
                   index_names, lastIndexQuery, lastInfo>>

\* open raises; save_stock_map and the run return False
RunSaveOpenFails ==
    /\ UNCHANGED otherThanVal
    /\ upd.pc = "save"
    /\ upd' = Done(FALSE, "open")
    /\ UNCHANGED <<stockmap_file, saving, stock_data, stock_symbols, lastQuery, keptQuery,
                   lastSearch, index_names, lastIndexQuery, lastInfo>>

\* json.dump completes; the run returns True
RunSaveDump ==
    /\ UNCHANGED otherThanVal
    /\ upd.pc = "dump"
    /\ DumpAndClose(upd.stock_map)
    /\ upd' = Done(TRUE, "nothing")
    /\ UNCHANGED <<stock_data, stock_symbols, lastQuery, keptQuery, lastSearch,
                   index_names, lastIndexQuery, lastInfo>>

\* json.dump raises (the write fails); the with block closes the file, which
\* holds no complete JSON document; save_stock_map and the run return False
RunSaveDumpFails ==
    /\ UNCHANGED otherThanVal
    /\ upd.pc = "dump"
    /\ saving
    /\ saving' = FALSE
    /\ upd' = Done(FALSE, "dump")
    /\ UNCHANGED <<stockmap_file, stock_data, stock_symbols, lastQuery, keptQuery,
                   lastSearch, index_names, lastIndexQuery, lastInfo>>

\* the stock maps a run can build
StockMaps ==
    {create_stock_map(security_data,
                      create_symbol_sector_map(sector_data.items, Len(sector_data.items)),
                      Len(security_data)) :
        security_data \in SecurityLists, sector_data \in {d \in SectorDatas : d.object}}

\* The updater as the validator's process sees it, through the file only: some run
\* reaches save_stock_map and opens the file ...
SaveOpen ==
    /\ UNCHANGED otherThanVal
    /\ OpenForWrite
    /\ UNCHANGED <<upd, stock_data, stock_symbols, lastQuery, keptQuery, lastSearch,
                   index_names, lastIndexQuery, lastInfo>>

\* ... and writes the stock map it built
SaveDump(stock_map) ==
    /\ UNCHANGED otherThanVal
    /\ DumpAndClose(stock_map)
    /\ UNCHANGED <<upd, stock_data, stock_symbols, lastQuery, keptQuery, lastSearch,
                   index_names, lastIndexQuery, lastInfo>>

\* --- find_symbol_by_company_name ---

UpperLetters == <<"A", "B", "C", "D", "E", "F", "G", "H", "I", "J", "K", "L", "M",
                 "N", "O", "P", "Q", "R", "S", "T", "U", "V", "W", "X", "Y", "Z">>

LowerLetters == <<"a", "b", "c", "d", "e", "f", "g", "h", "i", "j", "k", "l", "m",
                 "n", "o", "p", "q", "r", "s", "t", "u", "v", "w", "x", "y", "z">>

\* str.lower(), character by character
lower_char(c) ==
    IF \E i \in DOMAIN UpperLetters : UpperLetters[i] = c
    THEN LowerLetters[CHOOSE i \in DOMAIN UpperLetters : UpperLetters[i] = c]
    ELSE c

lower(s) == [i \in 1..Len(s) |-> lower_char(s[i])]

\* str.endswith
endswith(s, suffix) ==
    Len(suffix) <= Len(s) /\ SubSeq(s, Len(s) - Len(suffix) + 1, Len(s)) = suffix

\* suffixes_to_remove, in the order of the list
suffixes_to_remove == <<
    \* "microfinance laghubitta bittiya sanstha limited"
    <<"m", "i", "c", "r", "o", "f", "i", "n", "a", "n", "c", "e", " ", "l",
      "a", "g", "h", "u", "b", "i", "t", "t", "a", " ", "b", "i", "t", "t",
      "i", "y", "a", " ", "s", "a", "n", "s", "t", "h", "a", " ", "l", "i",
      "m", "i", "t", "e", "d">>,
    \* "laghubitta bittiya sanstha limited"
    <<"l", "a", "g", "h", "u", "b", "i", "t", "t", "a", " ", "b", "i", "t",
      "t", "i", "y", "a", " ", "s", "a", "n", "s", "t", "h", "a", " ", "l",
      "i", "m", "i", "t", "e", "d">>,
    \* "bittiya sanstha limited"
    <<"b", "i", "t", "t", "i", "y", "a", " ", "s", "a", "n", "s", "t", "h",
      "a", " ", "l", "i", "m", "i", "t", "e", "d">>,
    \* "development bank limited"
    <<"d", "e", "v", "e", "l", "o", "p", "m", "e", "n", "t", " ", "b", "a",
      "n", "k", " ", "l", "i", "m", "i", "t", "e", "d">>,
    \* "commercial bank limited"
    <<"c", "o", "m", "m", "e", "r", "c", "i", "a", "l", " ", "b", "a", "n",
      "k", " ", "l", "i", "m", "i", "t", "e", "d">>,
    \* "finance company limited"
    <<"f", "i", "n", "a", "n", "c", "e", " ", "c", "o", "m", "p", "a", "n",
      "y", " ", "l", "i", "m", "i", "t", "e", "d">>,
    \* "insurance company limited"
    <<"i", "n", "s", "u", "r", "a", "n", "c", "e", " ", "c", "o", "m", "p",
      "a", "n", "y", " ", "l", "i", "m", "i", "t", "e", "d">>,
    \* "life insurance company limited"
    <<"l", "i", "f", "e", " ", "i", "n", "s", "u", "r", "a", "n", "c", "e",
      " ", "c", "o", "m", "p", "a", "n", "y", " ", "l", "i", "m", "i", "t",
      "e", "d">>,
    \* "hydropower development company limited"
    <<"h", "y", "d", "r", "o", "p", "o", "w", "e", "r", " ", "d", "e", "v",
      "e", "l", "o", "p", "m", "e", "n", "t", " ", "c", "o", "m", "p", "a",
      "n", "y", " ", "l", "i", "m", "i", "t", "e", "d">>,
    \* "hydropower company limited"
    <<"h", "y", "d", "r", "o", "p", "o", "w", "e", "r", " ", "c", "o", "m",
      "p", "a", "n", "y", " ", "l", "i", "m", "i", "t", "e", "d">>,
    \* "power company limited"
    <<"p", "o", "w", "e", "r", " ", "c", "o", "m", "p", "a", "n", "y", " ",
      "l", "i", "m", "i", "t", "e", "d">>,
    \* "manufacturing company limited"
    <<"m", "a", "n", "u", "f", "a", "c", "t", "u", "r", "i", "n", "g", " ",
      "c", "o", "m", "p", "a", "n", "y", " ", "l", "i", "m", "i", "t", "e",
      "d">>,
    \* "trading company limited"
    <<"t", "r", "a", "d", "i", "n", "g", " ", "c", "o", "m", "p", "a", "n",
      "y", " ", "l", "i", "m", "i", "t", "e", "d">>,
    \* "investment company limited"
    <<"i", "n", "v", "e", "s", "t", "m", "e", "n", "t", " ", "c", "o", "m",
      "p", "a", "n", "y", " ", "l", "i", "m", "i", "t", "e", "d">>,
    \* "limited"
    <<"l", "i", "m", "i", "t", "e", "d">>,
    \* "ltd"
    <<"l", "t", "d">>,
    \* "company"
    <<"c", "o", "m", "p", "a", "n", "y">>,
    \* "co."
    <<"c", "o", ".">>,
    \* "pvt."
    <<"p", "v", "t", ".">>,
    \* "private"
    <<"p", "r", "i", "v", "a", "t", "e">>
    >>

\* for suffix in suffixes_to_remove: if name.endswith(suffix): cut it, strip, break
remove_suffix(name) ==
    IF \E i \in DOMAIN suffixes_to_remove : endswith(name, suffixes_to_remove[i])
    THEN LET first == CHOOSE i \in DOMAIN suffixes_to_remove :
                        /\ endswith(name, suffixes_to_remove[i])
                        /\ \A j \in 1..(i - 1) : ~endswith(name, suffixes_to_remove[j])
         IN strip(SubSeq(name, 1, Len(name) - Len(suffixes_to_remove[first])))
    ELSE name

\* the length of the first word of a string that starts with one
RECURSIVE word_len(_)
word_len(s) == IF s = <<>> \/ Head(s) \in Whitespace THEN 0 ELSE 1 + word_len(Tail(s))

\* str.split(): the words between runs of whitespace
RECURSIVE split(_)
split(s) ==
    LET t == lstrip(s)
    IN IF t = <<>> THEN <<>>
       ELSE <<SubSeq(t, 1, word_len(t))>> \o split(SubSeq(t, word_len(t) + 1, Len(t)))

skip_words == {<<"t", "h", "e">>, <<"a">>, <<"a", "n">>}

significant(word) == word \notin skip_words /\ Len(word) > 2

\* _normalize_company_name
normalize_company_name(name) ==
    IF name = <<>> THEN <<>>
    ELSE LET cut == remove_suffix(strip(lower(name)))
             words == split(cut)
         IN IF words = <<>> THEN cut
            ELSE IF \E i \in DOMAIN words : significant(words[i])
            THEN words[CHOOSE i \in DOMAIN words :
                        significant(words[i]) /\ \A j \in 1..(i - 1) : ~significant(words[j])]
            ELSE words[1]

\* the cap of the returned list (all_matches[:10]), scaled down so that a stock
\* map of three companies has more matches than the cap
max_matches == 2

\* the test of the exact branch
exact_match(normalized_query, normalized_security) ==
    lower(normalized_query) = lower(normalized_security)

\* the test of the partial branch
partial_match(normalized_query, normalized_security) ==
    \/ startswith(lower(normalized_security), lower(normalized_query))
    \/ startswith(lower(normalized_query), lower(normalized_security))

\* the loop over stock_data.items(), up to the n-th key of the file: the entries
\* appended to exact_matches (kind "exact") or to matches (kind "partial")
RECURSIVE collect(_, _, _, _)
collect(data, normalized_query, kind, n) ==
    IF n = 0 THEN <<>>
    ELSE LET before == collect(data, normalized_query, kind, n - 1)
             symbol == data.keys[n]
             info == data.dict[symbol]
         IN IF "name" \notin DOMAIN info THEN before
            ELSE LET normalized_security == normalize_company_name(info.name)
                     exact == exact_match(normalized_query, normalized_security)
                     partial == ~exact /\ partial_match(normalized_query, normalized_security)
                 IN IF (kind = "exact" /\ exact) \/ (kind = "partial" /\ partial)
                    THEN Append(before, [symbol |-> symbol, company_name |-> info.name,
                                         match_type |-> kind])
                    ELSE before

\* a result list with the partial matches first
all_matches_partial_first(exact_matches, matches) == matches \o exact_matches

\* all_matches = exact_matches + matches
all_matches(exact_matches, matches) == exact_matches \o matches

\* find_symbol_by_company_name over the loaded data
find_symbol_by_company_name(data, query) ==
    IF query = <<>>
    THEN [found |-> FALSE, error |-> "Company name is required", query |-> query]
    ELSE LET company_name == strip(query)
             normalized_query == normalize_company_name(company_name)
             exact_matches == collect(data, normalized_query, "exact", Len(data.keys))
             matches == collect(data, normalized_query, "partial", Len(data.keys))
             all == all_matches(exact_matches, matches)
         IN IF all # <<>>
            THEN [found |-> TRUE, query |-> company_name,
                  matches |-> SubSeq(all, 1, IF Len(all) < max_matches THEN Len(all)
                                             ELSE max_matches),
                  total_matches |-> Len(all)]
            ELSE [found |-> FALSE, error |-> "No company found", query |-> company_name]

SearchQueries ==
    {
     <<>>,
     <<" ">>,
     <<"n", "e", "p", "a", "l">>,
     <<"N", "e", "p", "a", "l", " ", "B", "a", "n", "k", " ", "L", "i", "m",
       "i", "t", "e", "d">>,
     <<"N", "E", "P">>,
     <<"t", "h", "e", " ", "n", "e", "p", "a", "l", "e", "s", "e">>,
     <<"x", "y", "z">>,
     <<"l", "t", "d">>,
     <<"N", "e">>,
     <<" ", "N", "e", "p", "a", "l", " ">>,
     <<"N", "e", "p", "a", "l", "e", "s", "e">>,
     <<"n", "e", "p", " ", "c", "o", ".">>,
     <<"h", "y", "d", "r", "o">>,
     <<"T", "h", "e">>,
     <<"a", "n", " ", "n", "e", "p", " ", "t", "r", "a", "d", "i", "n", "g", " ",
       "c", "o", "m", "p", "a", "n", "y", " ", "l", "i", "m", "i", "t", "e", "d">>
    }

NoSearch == [asked |-> FALSE]


\* --- validate_index_name ---

\* the set _load_index_names defines
IndexNames ==
    {
     \* "Banking SubIndex"
     <<"B", "a", "n", "k", "i", "n", "g", " ", "S", "u", "b", "I", "n", "d",
       "e", "x">>,
     \* "Development Bank Index"
     <<"D", "e", "v", "e", "l", "o", "p", "m", "e", "n", "t", " ", "B", "a",
       "n", "k", " ", "I", "n", "d", "e", "x">>,
     \* "Finance Index"
     <<"F", "i", "n", "a", "n", "c", "e", " ", "I", "n", "d", "e", "x">>,
     \* "Hotels And Tourism Index"
     <<"H", "o", "t", "e", "l", "s", " ", "A", "n", "d", " ", "T", "o", "u",
       "r", "i", "s", "m", " ", "I", "n", "d", "e", "x">>,
     \* "HydroPower Index"
     <<"H", "y", "d", "r", "o", "P", "o", "w", "e", "r", " ", "I", "n", "d",
       "e", "x">>,
     \* "Investment Index"
     <<"I", "n", "v", "e", "s", "t", "m", "e", "n", "t", " ", "I", "n", "d",
       "e", "x">>,
     \* "Life Insurance"
     <<"L", "i", "f", "e", " ", "I", "n", "s", "u", "r", "a", "n", "c", "e">>,
     \* "Manufacturing And Processing"
     <<"M", "a", "n", "u", "f", "a", "c", "t", "u", "r", "i", "n", "g", " ",
       "A", "n", "d", " ", "P", "r", "o", "c", "e", "s", "s", "i", "n", "g">>,
     \* "Microfinance Index"
     <<"M", "i", "c", "r", "o", "f", "i", "n", "a", "n", "c", "e", " ", "I",
       "n", "d", "e", "x">>,
     \* "Mutual Fund"
     <<"M", "u", "t", "u", "a", "l", " ", "F", "u", "n", "d">>,
     \* "NEPSE Index"
     <<"N", "E", "P", "S", "E", " ", "I", "n", "d", "e", "x">>,
     \* "Non Life Insurance"
     <<"N", "o", "n", " ", "L", "i", "f", "e", " ", "I", "n", "s", "u", "r",
       "a", "n", "c", "e">>,
     \* "Others Index"
     <<"O", "t", "h", "e", "r", "s", " ", "I", "n", "d", "e", "x">>,
     \* "Trading Index"
     <<"T", "r", "a", "d", "i", "n", "g", " ", "I", "n", "d", "e", "x">>
    }

\* the labels of INTERNAL_SECTOR_MAP (updateStocksMap.py) that are shortened forms
\* of names above: the variants written into stockmap.json as internalSector
LegacyIndexNames ==
    {
     \* "Development Bank Ind."
     <<"D", "e", "v", "e", "l", "o", "p", "m", "e", "n", "t", " ", "B", "a",
       "n", "k", " ", "I", "n", "d", ".">>,
     \* "Hotels And Tourism"
     <<"H", "o", "t", "e", "l", "s", " ", "A", "n", "d", " ", "T", "o", "u",
       "r", "i", "s", "m">>,
     \* "Investment"
     <<"I", "n", "v", "e", "s", "t", "m", "e", "n", "t">>,
     \* "Manufacturing And Pr."
     <<"M", "a", "n", "u", "f", "a", "c", "t", "u", "r", "i", "n", "g", " ",
       "A", "n", "d", " ", "P", "r", ".">>
    }

\* names that are neither: "Invalid Index", "Sensitive Index"
UnknownIndexNames ==
    {<<"I", "n", "v", "a", "l", "i", "d", " ", "I", "n", "d", "e", "x">>,
     <<"S", "e", "n", "s", "i", "t", "i", "v", "e", " ", "I", "n", "d", "e", "x">>}

\* the inputs tried: every name as it is, lower-cased, and padded with blanks
IndexInputs ==
    {<<>>, <<" ">>}
    \cup UNION {{n, lower(n), <<" ">> \o n, n \o <<" ">>, <<" ">> \o n \o <<" ">>,
                 <<" ", " ">> \o lower(n)} :
                    n \in IndexNames \cup LegacyIndexNames \cup UnknownIndexNames}

\* _load_index_names
load_index_names == [names |-> IndexNames]

\* is_valid_index_name over the loaded set
is_valid_index_name(loaded, index_name) ==
    index_name # <<>> /\ index_name \in loaded.names

\* validate_index_name over the loaded set; available_indices is the list of a
\* set, whose order is not fixed: kept as the set
validate_index_name(loaded, input) ==
    IF input = <<>>
    THEN [valid |-> FALSE, error |-> "Index name is required", index_name |-> None]
    ELSE LET index_name == strip(input)
         IN IF is_valid_index_name(loaded, index_name)
            THEN [valid |-> TRUE, index_name |-> index_name]
            ELSE [valid |-> FALSE, error |-> <<"Index '", index_name, "' not found.">>,
                  index_name |-> index_name, available_indices |-> loaded.names]

\* one validate_index_name call; every call with a non-empty input reaches
\* _load_index_names
ValidateIndex(input) ==
    /\ UNCHANGED otherThanVal
    /\ index_names' = IF index_names = None /\ input # <<>> THEN load_index_names
                      ELSE index_names
    /\ lastIndexQuery' = [asked |-> TRUE, input |-> input,
                          result |-> validate_index_name(index_names', input)]
    /\ UNCHANGED <<stockmap_file, saving, upd, stock_data, stock_symbols, lastQuery, keptQuery,
                   lastSearch, lastInfo>>

\* --- get_stats; the result of find_company_name_by_symbol ---

sample_size == 10   \* validator.py:161

\* get_stats over the loaded symbol set and index names; available_indices is the
\* list of a set, kept as the set
get_stats(symbols, loaded) ==
    [total_stocks |-> Len(symbols),
     total_indices |-> Cardinality(loaded.names),
     sample_stocks |-> SubSeq(symbols, 1, IF Len(symbols) < sample_size THEN Len(symbols)
                                          ELSE sample_size),
     available_indices |-> loaded.names]

\* one get_stats call (GET /validation/stats): get_valid_stock_symbols loads
\* _stock_data and _stock_symbols if no call has yet, get_valid_index_names the
\* index names
GetStats ==
    /\ UNCHANGED otherThanVal
    /\ UNCHANGED <<stockmap_file, saving, upd>>
    /\ \/ /\ \E order \in OrdersIf(TRUE) : LoadSymbols(TRUE, order)
          /\ index_names' = IF index_names = None THEN load_index_names ELSE index_names
          /\ lastInfo' = [asked |-> TRUE, call |-> "get_stats", input |-> <<>>,
                          result |-> get_stats(symbols_of(stock_symbols'), index_names')]
          /\ UNCHANGED <<lastQuery, keptQuery, lastSearch, lastIndexQuery>>
       \/ LoadRaises("get_stats")

\* the result find_company_name_by_symbol(input) builds from what its calls of
\* is_valid_stock_symbol, get_stock_info and _get_similar_symbols gave, looked
\* being these in the shape of a validate_stock_symbol result
company_name_found(input, looked) ==
    IF input = <<>>
    THEN [found |-> FALSE, error |-> "Stock symbol is required", query |-> input]
    ELSE IF looked.valid
    THEN IF looked.info # None /\ "name" \in DOMAIN looked.info
         THEN [found |-> TRUE, symbol |-> looked.symbol,
               company_name |-> looked.info.name, full_info |-> looked.info]
         ELSE [found |-> FALSE,
               error |-> <<"Company name not available for symbol '", looked.symbol, "'">>,
               symbol |-> looked.symbol]
    ELSE [found |-> FALSE, error |-> looked.error, symbol |-> looked.symbol,
          suggestions |-> looked.suggestions]

\* --- is_valid_stock, get_stock_info and get_valid_stock_symbols ---

\* one is_valid_stock(symbol) call: `not symbol` answers False before any load,
\* every other input, a blank one too, reaches get_valid_stock_symbols
IsValidStock(input) ==
    /\ UNCHANGED otherThanVal
    /\ UNCHANGED <<stockmap_file, saving, upd>>
    /\ \/ /\ \E order \in OrdersIf(input # <<>>) : LoadSymbols(input # <<>>, order)
          /\ lastInfo' = [asked |-> TRUE, call |-> "is_valid_stock", input |-> input,
                          result |-> is_valid_stock_symbol(symbols_of(stock_symbols'), input)]
          /\ UNCHANGED <<lastQuery, keptQuery, lastSearch, index_names, lastIndexQuery>>
       \/ input # <<>> /\ LoadRaises("is_valid_stock")

\* one validator.get_stock_info(symbol) call: None unless the symbol is valid,
\* else the entry of symbol.upper() in the data held
GetStockInfo(input) ==
    /\ UNCHANGED otherThanVal
    /\ UNCHANGED <<stockmap_file, saving, upd>>
    /\ \/ /\ \E order \in OrdersIf(input # <<>>) : LoadSymbols(input # <<>>, order)
          /\ lastInfo' = [asked |-> TRUE, call |-> "get_stock_info", input |-> input,
                          result |-> get_stock_info(stock_data', symbols_of(stock_symbols'),
                                                    input)]
          /\ UNCHANGED <<lastQuery, keptQuery, lastSearch, index_names, lastIndexQuery>>
       \/ input # <<>> /\ LoadRaises("get_stock_info")

\* one validator.get_valid_stock_symbols() call: the symbol set, built on the
\* first call that asks for it
GetValidStockSymbols ==
    /\ UNCHANGED otherThanVal
    /\ UNCHANGED <<stockmap_file, saving, upd>>
    /\ \/ /\ \E order \in OrdersIf(TRUE) : LoadSymbols(TRUE, order)
          /\ lastInfo' = [asked |-> TRUE, call |-> "get_valid_stock_symbols", input |-> <<>>,
                          result |-> {symbols_of(stock_symbols')[i] :
                                          i \in DOMAIN symbols_of(stock_symbols')}]
          /\ UNCHANGED <<lastQuery, keptQuery, lastSearch, index_names, lastIndexQuery>>
       \/ LoadRaises("get_valid_stock_symbols")

InitVal ==
    /\ stockmap_file = Written(DeployedStockMap)
    /\ saving = FALSE
    /\ upd = [pc |-> "idle"]
    /\ stock_data = None
    /\ stock_symbols = None
    /\ lastQuery = NoQuery
    /\ keptQuery = NoQuery
    /\ lastSearch = NoSearch
    /\ index_names = None
    /\ lastIndexQuery = NoQuery
    /\ lastInfo = NoQuery

\* a run of updateStocksMap.py, step by step
NextUpdater ==
    \/ UpdateStart
    \/ \E healthy \in BOOLEAN : CheckServerHealth(healthy)
    \/ \E ok \in BOOLEAN, security_data \in SecurityLists :
            FetchSecurityList(ok, security_data)
    \/ \E ok \in BOOLEAN, sector_data \in SectorDatas : FetchSectorData(ok, sector_data)
    \/ RunSaveOpen
    \/ RunSaveOpenFails
    \/ RunSaveDump
    \/ RunSaveDumpFails

\* the symbols a company name is asked for: none, one of the shipped file, one
\* only an update brings
CompanyLookups == {<<>>, <<"A", "B">>, <<"A", "A">>}

NextVal ==
    \/ \E input \in Inputs : Validate(input)
    \/ GetStats
    \/ SaveOpen
    \/ \E stock_map \in StockMaps : SaveDump(stock_map)

\* the inputs a client sends again and again: a symbol of the shipped file in
\* three spellings, a symbol only an update brings, an unknown one and no symbol
RepeatedInputs ==
    {<<>>, <<" ">>, <<"A", "B">>, <<"a", "B">>, <<"A", "B", " ">>, <<"A", "A">>, <<"B", "B">>}

\* the validator asked the same questions over the life of the process, while
\* updater runs rewrite the file
NextValRepeat ==
    \/ \E input \in RepeatedInputs : Validate(input)
    \/ GetStats
    \/ \E input \in CompanyLookups \cup {<<" ">>} : IsValidStock(input)
    \/ \E input \in CompanyLookups : GetStockInfo(input)
    \/ GetValidStockSymbols
    \/ SaveOpen
    \/ \E stock_map \in StockMaps : SaveDump(stock_map)

\* one call of validate_stock_symbol, not paired with an earlier one
LookupSymbol(input) == Validate(input) /\ keptQuery' = keptQuery

NextLookup ==
    \/ \E input \in Inputs : LookupSymbol(input)
    \/ SaveOpen
    \/ \E stock_map \in StockMaps : SaveDump(stock_map)

NextIndex == \E input \in IndexInputs : ValidateIndex(input)

-----------------------------------------------------------------------------
(* server.py: the response an HTTP request gets.                              *)

\* the requests followed: request.url.path and the symbol the route is given,
\* in the path or as the query parameter (<<>> where the route takes none)
HttpRequests ==
    {[path |-> "/health", symbol |-> <<>>],
     [path |-> "/Summary", symbol |-> <<>>],
     [path |-> "/validate/stock/A", symbol |-> <<"A">>],
     [path |-> "/validate/stock/B", symbol |-> <<"B">>],
     [path |-> "/CompanyDetails", symbol |-> SymAB],
     [path |-> "/CompanyDetails", symbol |-> SymAA]}

HEADERS ==
    ("Access-Control-Allow-Origin" :> "*") @@ ("Cache-Control" :> "public, max-age=30")

\* a response built without a headers argument
NoHeaders == <<>>

\* get_rate_limit_headers(info)
get_rate_limit_headers(info) ==
    ("X-RateLimit-Limit" :> info.limit) @@ ("X-RateLimit-Remaining" :> info.remaining)
    @@ ("X-RateLimit-Reset" :> info.reset_time) @@ ("X-RateLimit-Category" :> info.category)

\* headers[key] = value for every key of extra
with_headers(headers, extra) ==
    [key \in DOMAIN headers \cup DOMAIN extra |->
        IF key \in DOMAIN extra THEN extra[key] ELSE headers[key]]

\* the JSONResponse of the middleware when check_rate_limit rejects
too_many_requests(info, current_time) ==
    [status |-> 429,
     headers |-> with_headers(get_rate_limit_headers(info),
                     "Retry-After" :> (info.reset_time - current_time \div TicksPerSecond))]

\* what the route of the request does: the response it returns, the
\* HTTPException it raises (which FastAPI answers with the status and no further
\* headers), or another exception when the upstream call fails
call_next(data, symbols, request, upstream_ok) ==
    LET validation_result == validate_stock_symbol(data, symbols, request.symbol)
    IN IF request.path \in {"/health", "/"}
       THEN [raises |-> FALSE, status |-> 200, headers |-> NoHeaders]
       ELSE IF request.path \in StartsWithValidate
       THEN IF validation_result.valid
            THEN [raises |-> FALSE, status |-> 200, headers |-> HEADERS]
            ELSE [raises |-> FALSE, status |-> 404,
                  headers |-> "Access-Control-Allow-Origin" :> "*"]
       ELSE IF request.path = "/CompanyDetails" /\ ~validation_result.valid
       THEN [raises |-> FALSE, status |-> 400, headers |-> NoHeaders]
       ELSE IF upstream_ok
       THEN [raises |-> FALSE, status |-> 200, headers |-> HEADERS]
       ELSE [raises |-> TRUE]

\* rate_limit_middleware.  When the route raises, `await call_next(request)`
\* raises as well and lines 50-54 do not run: the server answers 500 with the
\* headers of neither the route nor the middleware.  in_response says whether the
\* framework instead hands the middleware a 500 response to decorate.
rate_limit_middleware(data, symbols, request, allowed, info, current_time, upstream_ok, in_response) ==
    IF ~allowed THEN too_many_requests(info, current_time)
    ELSE LET response == call_next(data, symbols, request, upstream_ok)
         IN IF response.raises
            THEN IF in_response
                 THEN [status |-> 500,
                       headers |-> with_headers(NoHeaders, get_rate_limit_headers(info))]
                 ELSE [status |-> 500, headers |-> NoHeaders]
            ELSE [status |-> response.status,
                  headers |-> with_headers(response.headers, get_rate_limit_headers(info))]

NoResponse == [answered |-> FALSE, pending |-> <<>>]

\* the sequence without its i-th element
Without(seq, i) == SubSeq(seq, 1, i - 1) \o SubSeq(seq, i + 1, Len(seq))

\* one HTTP request enters the middleware: check_rate_limit records it; a rejected
\* request is answered 429 at once, an admitted one is suspended in
\* `await call_next(request)` until its route is run
HttpServe(ip, request) ==
    /\ UNCHANGED otherThanConn
    /\ ncalls < MaxCalls
    /\ LET res == is_allowed(requests["server"], last_cleanup["server"], ip, request.path, now)
       IN /\ requests' = [requests EXCEPT !["server"] = res.requests]
          /\ last_cleanup' = [last_cleanup EXCEPT !["server"] = res.last_cleanup]
          /\ http' = IF res.allowed
                     THEN [http EXCEPT !.pending =
                              Append(@, [request |-> request, info |-> res.info,
                                         stage |-> "call_next"])]
                     ELSE [answered |-> TRUE, request |-> request, allowed |-> FALSE,
                           raised |-> FALSE,
                           response |-> too_many_requests(res.info, now),
                           pending |-> http.pending]
    /\ ncalls' = ncalls + 1
    /\ UNCHANGED <<ws, zmq, mcp, now, slots, admitted, last, nrejected>>

\* the symbol the route of the request hands to validate_stock_symbol; <<>>
\* for a route that validates none
http_validated(request) ==
    IF request.path \in StartsWithValidate \cup {"/CompanyDetails"} THEN request.symbol
    ELSE <<>>

\* whether the route of the request awaits the upstream call: the routes
\* answered by the process itself do not, nor does get_company_details when
\* validate_stock_or_raise raised
awaits_upstream(data, symbols, request) ==
    /\ request.path \notin {"/health", "/"} \cup StartsWithValidate
    /\ request.path = "/CompanyDetails"
            => validate_stock_symbol(data, symbols, request.symbol).valid

\* the 500 a request gets when its route raised something that is no
\* HTTPException; in_response as in rate_limit_middleware
server_error(info, in_response) ==
    IF in_response
    THEN [status |-> 500, headers |-> with_headers(NoHeaders, get_rate_limit_headers(info))]
    ELSE [status |-> 500, headers |-> NoHeaders]

\* the answer to the i-th of the suspended requests
Answered(i, raised, response) ==
    [answered |-> TRUE, request |-> http.pending[i].request, allowed |-> TRUE,
     raised |-> raised, response |-> response, pending |-> Without(http.pending, i)]

\* the route of one of the admitted requests runs, in any order, up to its
\* first await: a route with a symbol has the validator of the process look it
\* up, which loads its data if it has not yet (no other coroutine runs
\* meanwhile) and may raise the error of open().  The route then returns or
\* raises at once and lines 50-54 add the headers to its response, or it is
\* suspended in its upstream call (server.py:381)
HttpRoute(i, in_response) ==
    /\ UNCHANGED <<cacheVars, aggVars, pageVars, stockmap_file, saving, upd>>
    /\ i \in DOMAIN http.pending
    /\ http.pending[i].stage = "call_next"
    /\ LET symbol == http_validated(http.pending[i].request)
       IN \/ /\ \E order \in OrdersFor(symbol) : LoadSymbols(reaches_load(symbol), order)
             /\ UNCHANGED <<lastQuery, keptQuery, lastSearch, index_names, lastIndexQuery,
                            lastInfo>>
          \/ reaches_load(symbol) /\ LoadRaises("validate_stock_symbol")
    /\ LET held == http.pending[i]
           load_raised == reaches_load(http_validated(held.request)) /\ stock_data' = None
       IN http' = IF load_raised
                  THEN Answered(i, TRUE, server_error(held.info, in_response))
                  ELSE IF awaits_upstream(stock_data', symbols_of(stock_symbols'),
                                          held.request)
                  THEN [http EXCEPT !.pending[i].stage = "upstream"]
                  ELSE Answered(i, FALSE,
                                rate_limit_middleware(stock_data', symbols_of(stock_symbols'),
                                                      held.request, TRUE, held.info, now,
                                                      TRUE, in_response))
    /\ UNCHANGED <<ws, zmq, mcp, limiterVars>>

\* the upstream call one of the suspended routes awaits returns or raises, in
\* any order: call_next returns the response of the route and lines 50-54 add
\* the headers, or it raises
HttpAnswer(i, upstream_ok, in_response) ==
    /\ UNCHANGED <<cacheVars, aggVars, pageVars, valVars>>
    /\ i \in DOMAIN http.pending
    /\ http.pending[i].stage = "upstream"
    /\ LET held == http.pending[i]
       IN http' = Answered(i, ~upstream_ok,
                           rate_limit_middleware(stock_data, symbols_of(stock_symbols),
                                                 held.request, TRUE, held.info, now,
                                                 upstream_ok, in_response))
    /\ UNCHANGED <<ws, zmq, mcp, limiterVars>>

\* server.py answering requests, several of them in flight at a time
NextHttp ==
    \/ \E request \in HttpRequests : HttpServe("10.0.0.1", request)
    \/ \E i \in 1..MaxCalls, in_response \in BOOLEAN : HttpRoute(i, in_response)
    \/ \E i \in 1..MaxCalls, upstream_ok \in BOOLEAN, in_response \in BOOLEAN :
            HttpAnswer(i, upstream_ok, in_response)
    \/ \E d \in TimeSteps : Advance(d)

-----------------------------------------------------------------------------
(* mcp_server.py: the tools with a market-state precondition.                 *)

MaxToolCalls == 2

\* isOpen as the upstream reports it
MarketStates == {"OPEN", "CLOSE"}

ToolNames == {"get_live_market", "get_market_depth", "get_floorsheet", "get_company_floorsheet"}

\* the symbols the tools are called with
ToolInputs == {SymAB, SymAA}

\* /IsNepseOpen; an endpoint is written as its path and the symbol put into it
StatusEndpoint == <<"/IsNepseOpen", <<>>>>

\* the endpoint a tool fetches its data from, with the validated symbol where it
\* takes one
data_endpoint(tool, validated_symbol) ==
    IF tool = "get_live_market" THEN <<"/LiveMarket", <<>>>>
    ELSE IF tool = "get_market_depth" THEN <<"/MarketDepth?symbol=", validated_symbol>>
    ELSE IF tool = "get_floorsheet" THEN <<"/Floorsheet", <<>>>>
    ELSE <<"/FloorsheetOf?symbol=", validated_symbol>>

ToolEndpoints ==
    {StatusEndpoint}
    \cup {data_endpoint(tool, symbol) : tool \in ToolNames, symbol \in ToolInputs}

\* the first `with _endpoint_cache_lock:` block of fetch_nepse_api(endpoint)
\* entered at time t: a fresh entry is returned, an expired one deleted
fetch_cached(cache, endpoint, t) ==
    IF cache[endpoint] # None /\ fresh(t, cache[endpoint].expires_at)
    THEN [hit |-> TRUE, data |-> cache[endpoint].data, cache |-> cache]
    ELSE [hit |-> FALSE, cache |-> [cache EXCEPT ![endpoint] = None]]

\* the second locked block of the call entered at time t, after the upstream
\* answered payload
fetch_store(cache, endpoint, t, payload) ==
    [cache EXCEPT ![endpoint] = [data |-> payload, expires_at |-> expires_at(t)]]

\* check_market_open(): isOpen == 'OPEN' of the fetched status; False when the
\* fetch raises (`except Exception: return False`)
check_market_open(fetched) == ~fetched.raises /\ fetched.data = "OPEN"

MarketClosedError == [error |-> "Market is closed. This tool only works when the market is open."]
MarketOpenError ==
    [error |-> "Market is open. This tool works when the market is closed, it does not work when the market is open."]

\* the tools that return the closed error unless the market is open
needs_open(tool) == tool \in {"get_live_market", "get_market_depth"}

\* the tools that validate a symbol before they fetch
takes_symbol(tool) == tool \in {"get_market_depth", "get_company_floorsheet"}

\* the threads the tool calls run on
ToolThreads == {"t1", "t2"}

\* get_market_status, the tool that only reports the status it fetched
StatusTool == "get_market_status"

NoToolCall == [called |-> FALSE]
NoTool == [pc |-> "idle"]

\* validate_stock_symbol_tool, the tool that only validates its symbol
ValidateTool == "validate_stock_symbol_tool"

\* get_company_symbol, the tool that returns find_symbol_by_company_name of its
\* argument, and get_company_name_from_symbol, which returns
\* find_company_name_by_symbol of it
CompanySymbolTool == "get_company_symbol"
CompanyNameTool == "get_company_name_from_symbol"

\* the ways open() and the read of the file can end: the file is read (its
\* content, or {} after one of the two errors caught), or an error that is not
\* caught propagates
ReadOutcomes == {"read", "OSError"}

\* a tool after check_market_open() returned (fetched: raises, data): it
\* returns, or goes on to validate its symbol, or to fetch its data
after_status(tool, fetched) ==
    LET is_open == check_market_open(fetched)
    IN IF tool = StatusTool
       THEN [ends |-> "returns",
             result |-> IF fetched.raises THEN [error |-> "upstream"]
                        ELSE [isOpen |-> fetched.data]]
       ELSE IF needs_open(tool) /\ ~is_open
       THEN [ends |-> "returns", result |-> MarketClosedError]
       ELSE IF ~needs_open(tool) /\ is_open
       THEN [ends |-> "returns", result |-> MarketOpenError]
       ELSE IF takes_symbol(tool) THEN [ends |-> "validates"]
       ELSE [ends |-> "fetches", endpoint |-> data_endpoint(tool, <<>>)]

\* the return of a tool call
Returned(call_, result) ==
    [called |-> TRUE, tool |-> call_.tool, symbol |-> call_.symbol,
     market |-> call_.market, status |-> call_.status, result |-> result]

\* the locals a tool keeps from its market-state test on: its name and argument,
\* how it learnt the state of the market and what the upstream reported then
kept(call_) ==
    [tool |-> call_.tool, symbol |-> call_.symbol, status |-> call_.status,
     market |-> call_.market]

\* the thread of call_ at position pc, with the further locals it holds there
at(pc, call_, locals) == [pc |-> pc] @@ locals @@ kept(call_)

\* the thread of call_ at position pc inside validate_stock_symbol, sym being
\* symbol.upper().strip()
validating(pc, call_, locals) == [pc |-> pc, sym |-> call_.sym] @@ locals @@ kept(call_)

\* the lookup of the symbol on thread th ends with validation_result:
\* validate_stock_symbol_tool returns it, get_company_name_from_symbol returns
\* the result find_company_name_by_symbol builds from it, the other tools return
\* the error of an invalid symbol or go on to fetch_nepse_api with
\* validation_result["symbol"]
Validated(th, call_, validation_result, mcp_) ==
    /\ mcp' = [mcp_ EXCEPT
                 !.threads[th] =
                     IF call_.tool \in {ValidateTool, CompanyNameTool}
                            \/ ~validation_result.valid
                     THEN NoTool
                     ELSE at("validated", call_,
                             [endpoint |-> data_endpoint(call_.tool, validation_result.symbol)]),
                 !.last = IF call_.tool = ValidateTool
                          THEN Returned(call_, [validation_result |-> validation_result])
                          ELSE IF call_.tool = CompanyNameTool
                          THEN Returned(call_,
                                        [search_result |->
                                            company_name_found(call_.symbol, validation_result)])
                          ELSE IF ~validation_result.valid
                          THEN Returned(call_, [error |-> validation_result.error])
                          ELSE @]
    /\ lastQuery' = IF call_.tool = ValidateTool
                    THEN [asked |-> TRUE, input |-> call_.symbol, result |-> validation_result]
                    ELSE lastQuery
    /\ keptQuery' \in IF call_.tool = ValidateTool THEN {keptQuery, lastQuery} ELSE {keptQuery}
    /\ lastInfo' = IF call_.tool = CompanyNameTool
                   THEN [asked |-> TRUE, call |-> "find_company_name_by_symbol",
                         input |-> call_.symbol,
                         result |-> company_name_found(call_.symbol, validation_result)]
                   ELSE lastInfo

\* validate_stock_symbol(symbol) or find_company_name_by_symbol(symbol) entered
\* by the tool of thread th: `if not symbol` and a symbol that is blank once
\* stripped are answered without a read of the validator's attributes; any
\* other symbol goes to is_valid_stock_symbol
EnterValidation(th, call_, mcp_) ==
    IF reaches_load(call_.symbol)
    THEN /\ mcp' = [mcp_ EXCEPT
                      !.threads[th] = [pc |-> "get_symbols",
                                       sym |-> strip(upper(call_.symbol))] @@ kept(call_)]
         /\ UNCHANGED <<lastQuery, keptQuery, lastInfo>>
    ELSE Validated(th, call_, validate_stock_symbol(None, <<>>, call_.symbol), mcp_)

\* what the tool threads leave alone
notTools == <<limiterVars, cacheVars, aggVars, ws, zmq, http, pageVars>>

\* the file, the updater and what the lookups of the tools leave alone
valFile == <<stockmap_file, saving, upd, lastSearch, index_names, lastIndexQuery>>

\* the file, the updater and what the search of a company name leaves alone
loadRest == <<stockmap_file, saving, upd, lastQuery, keptQuery, index_names, lastIndexQuery,
              lastInfo>>

\* _load_stock_data returns data to its caller on thread th:
\* get_valid_stock_symbols goes on to build the symbol set,
\* find_symbol_by_company_name to search the data it was returned
Loaded(th, call_, data) ==
    mcp' = [mcp EXCEPT
              !.threads[th] =
                  validating(IF call_.tool = CompanySymbolTool THEN "search" ELSE "set_symbols",
                             call_, [data |-> data])]

\* a client calls a tool with a market-state precondition, or get_market_status,
\* which runs on thread th into fetch_nepse_api("/IsNepseOpen"):
\* now = time.time() (line 492)
ToolCall(th, tool, symbol) ==
    /\ UNCHANGED <<notTools, valVars>>
    /\ mcp.calls < MaxToolCalls
    /\ mcp.threads[th] = NoTool
    /\ mcp' = [mcp EXCEPT
                 !.calls = @ + 1,
                 !.threads[th] = [pc |-> "status_lookup", tool |-> tool, symbol |-> symbol,
                                  now |-> clock]]

\* the first `with _endpoint_cache_lock:` block of the status fetch (lines
\* 494-501), some time after the clock was read: the status is served from the
\* cache, or an expired entry is deleted and the lock released
ToolStatusLookup(th) ==
    /\ UNCHANGED <<notTools, valVars>>
    /\ mcp.threads[th].pc = "status_lookup"
    /\ LET call_ == mcp.threads[th]
           looked == fetch_cached(mcp.cache, StatusEndpoint, call_.now)
       IN mcp' = [mcp EXCEPT
                    !.cache = looked.cache,
                    !.threads[th] =
                        IF looked.hit
                        THEN [pc |-> "status_known", tool |-> call_.tool,
                              symbol |-> call_.symbol,
                              fetched |-> [raises |-> FALSE, data |-> looked.data],
                              status |-> "cached", market |-> mcp.market]
                        ELSE [call_ EXCEPT !.pc = "status_upstream"]]

\* httpx.get, raise_for_status and response.json() of the status fetch of thread
\* th (lines 503-505): the upstream answers with the state of the market, which
\* the thread holds until it gets the lock, or the fetch raises and
\* check_market_open returns False
ToolStatusFetched(th, status_ok) ==
    /\ UNCHANGED <<notTools, valVars>>
    /\ mcp.threads[th].pc = "status_upstream"
    /\ LET call_ == mcp.threads[th]
       IN mcp' = [mcp EXCEPT
                    !.threads[th] =
                        IF status_ok
                        THEN [pc |-> "status_store", tool |-> call_.tool,
                              symbol |-> call_.symbol, now |-> call_.now,
                              data |-> mcp.market]
                        ELSE [pc |-> "status_known", tool |-> call_.tool,
                              symbol |-> call_.symbol, fetched |-> [raises |-> TRUE],
                              status |-> "failed", market |-> mcp.market]]

\* the second `with _endpoint_cache_lock:` block of the status fetch (lines
\* 506-507): the status is stored with the expiry counted from the clock reading
\* of line 492, and returned
ToolStatusStore(th) ==
    /\ UNCHANGED <<notTools, valVars>>
    /\ mcp.threads[th].pc = "status_store"
    /\ LET call_ == mcp.threads[th]
       IN mcp' = [mcp EXCEPT
                    !.cache = fetch_store(@, StatusEndpoint, call_.now, call_.data),
                    !.threads[th] =
                        [pc |-> "status_known", tool |-> call_.tool, symbol |-> call_.symbol,
                         fetched |-> [raises |-> FALSE, data |-> call_.data],
                         status |-> "fetched", market |-> call_.data]]

\* the tool of thread th goes on with the status in hand: get_market_status
\* returns it; the others test the market state and return the market-state
\* error, or enter validate_stock_symbol, or are about to fetch their data
ToolCheck(th) ==
    /\ UNCHANGED <<notTools, valFile, stock_data, stock_symbols>>
    /\ mcp.threads[th].pc = "status_known"
    /\ LET call_ == mcp.threads[th]
           go == after_status(call_.tool, call_.fetched)
       IN IF go.ends = "validates" THEN EnterValidation(th, call_, mcp)
          ELSE /\ mcp' = [mcp EXCEPT
                            !.threads[th] =
                                IF go.ends = "returns" THEN NoTool
                                ELSE at("validated", call_, [endpoint |-> go.endpoint]),
                            !.last = IF go.ends = "returns" THEN Returned(call_, go.result)
                                     ELSE @]
               /\ UNCHANGED <<lastQuery, keptQuery, lastInfo>>

\* a client calls validate_stock_symbol_tool, which runs on thread th into
\* validate_stock_symbol
ValidateCall(th, symbol) ==
    /\ UNCHANGED <<notTools, valFile, stock_data, stock_symbols>>
    /\ mcp.calls < MaxToolCalls
    /\ mcp.threads[th] = NoTool
    /\ EnterValidation(th, [tool |-> ValidateTool, symbol |-> symbol, status |-> "none",
                            market |-> mcp.market],
                       [mcp EXCEPT !.calls = @ + 1])

\* a client calls get_company_name_from_symbol, which runs on thread th into
\* find_company_name_by_symbol: the lookup of the symbol takes the steps of
\* validate_stock_symbol (is_valid_stock_symbol, then get_stock_info or
\* _get_similar_symbols), and an error it raises is returned by the tool
FindCompanyName(th, input) ==
    /\ UNCHANGED <<notTools, valFile, stock_data, stock_symbols>>
    /\ mcp.calls < MaxToolCalls
    /\ mcp.threads[th] = NoTool
    /\ EnterValidation(th, [tool |-> CompanyNameTool, symbol |-> input, status |-> "none",
                            market |-> mcp.market],
                       [mcp EXCEPT !.calls = @ + 1])

\* a client calls get_company_symbol, which runs on thread th into
\* find_symbol_by_company_name: `if not company_name` is answered without a call
\* of _load_stock_data (data: what the validator holds at that time, which the
\* call does not read); any other query goes to _load_stock_data
FindSymbol(th, query) ==
    /\ UNCHANGED <<notTools, valRest, stock_data, stock_symbols>>
    /\ mcp.calls < MaxToolCalls
    /\ mcp.threads[th] = NoTool
    /\ LET call_ == [tool |-> CompanySymbolTool, symbol |-> query, status |-> "none",
                     market |-> mcp.market]
       IN mcp' = [mcp EXCEPT
                    !.calls = @ + 1,
                    !.threads[th] =
                        IF query = <<>>
                        THEN [pc |-> "search", sym |-> query, data |-> stock_data]
                             @@ kept(call_)
                        ELSE [pc |-> "load_data", sym |-> strip(query)] @@ kept(call_)]

\* find_symbol_by_company_name on thread th answers from the data it was
\* returned (the loop over stock_data.items(), lines 229-250), and
\* get_company_symbol returns the result
Search(th) ==
    /\ UNCHANGED <<notTools, loadRest, stock_data, stock_symbols>>
    /\ mcp.threads[th].pc = "search"
    /\ LET call_ == mcp.threads[th]
           result == find_symbol_by_company_name(call_.data, call_.symbol)
       IN /\ mcp' = [mcp EXCEPT !.threads[th] = NoTool,
                                !.last = Returned(call_, [search_result |-> result])]
          /\ lastSearch' = [asked |-> TRUE, input |-> call_.symbol, over |-> call_.data,
                            result |-> result]

\* --- the validator on a tool thread, one access to its attributes (which no
\* lock guards) or to the file at a time ---

\* get_valid_stock_symbols, called by is_valid_stock_symbol: `if
\* self._stock_symbols is None:` is read.  A set that is there is returned and
\* the symbol looked up in it; else the thread goes on to _load_stock_data
GetSymbols(th) ==
    /\ UNCHANGED <<notTools, valRest, stock_data, stock_symbols>>
    /\ mcp.threads[th].pc = "get_symbols"
    /\ LET call_ == mcp.threads[th]
       IN mcp' = [mcp EXCEPT
                    !.threads[th] =
                        IF stock_symbols = None THEN validating("load_data", call_, <<>>)
                        ELSE IF is_valid_stock_symbol(stock_symbols.list, call_.sym)
                        THEN validating("info_symbols", call_, <<>>)
                        ELSE validating("similar", call_, <<>>)]

\* _load_stock_data: `if self._stock_data is None:` is read; data that is there
\* is returned, else the thread goes on to open the file
LoadData(th) ==
    /\ UNCHANGED <<notTools, valRest, stock_data, stock_symbols>>
    /\ mcp.threads[th].pc = "load_data"
    /\ LET call_ == mcp.threads[th]
       IN IF stock_data = None
          THEN mcp' = [mcp EXCEPT !.threads[th] = validating("open", call_, <<>>)]
          ELSE Loaded(th, call_, stock_data)

\* open() and json.load(f): the thread holds what it read, {} after one of the
\* two errors caught; any other error propagates to the tool, whose `except
\* Exception` returns it, and no attribute is assigned
LoadOpen(th, read) ==
    /\ UNCHANGED <<notTools, valRest, stock_data, stock_symbols>>
    /\ mcp.threads[th].pc = "open"
    /\ LET call_ == mcp.threads[th]
       IN mcp' = [mcp EXCEPT
                    !.threads[th] =
                        IF read = "read"
                        THEN validating("set_data", call_,
                                        [loaded |-> load_stock_data(stockmap_file)])
                        ELSE NoTool,
                    !.last = IF read = "read" THEN @
                             ELSE Returned(call_, [error |-> read])]

\* `self._stock_data = json.load(f)`, or `self._stock_data = {}` in a handler:
\* the attribute is assigned what this thread read, whatever it holds by now
LoadAssign(th) ==
    /\ UNCHANGED <<notTools, valRest, stock_symbols>>
    /\ mcp.threads[th].pc = "set_data"
    /\ stock_data' = mcp.threads[th].loaded
    /\ mcp' = [mcp EXCEPT !.threads[th] = validating("return_data", mcp.threads[th], <<>>)]

\* `return self._stock_data`: the attribute is read again
LoadReturn(th) ==
    /\ UNCHANGED <<notTools, valRest, stock_data, stock_symbols>>
    /\ mcp.threads[th].pc = "return_data"
    /\ Loaded(th, mcp.threads[th], stock_data)

\* `self._stock_symbols = set(stock_data.keys())`: the attribute is assigned the
\* keys of the data this thread was returned, whatever it holds by now; the set
\* gets one of the iteration orders of its content
SymbolsAssign(th) ==
    /\ UNCHANGED <<notTools, valRest, stock_data>>
    /\ mcp.threads[th].pc = "set_symbols"
    /\ \E order \in Orders(DOMAIN mcp.threads[th].data.dict) :
            stock_symbols' = [list |-> order]
    /\ mcp' = [mcp EXCEPT !.threads[th] = validating("return_symbols", mcp.threads[th], <<>>)]

\* `return self._stock_symbols`: the attribute is read again and
\* is_valid_stock_symbol looks the symbol up in it
SymbolsReturn(th) ==
    /\ UNCHANGED <<notTools, valRest, stock_data, stock_symbols>>
    /\ mcp.threads[th].pc = "return_symbols"
    /\ LET call_ == mcp.threads[th]
       IN mcp' = [mcp EXCEPT
                    !.threads[th] =
                        IF is_valid_stock_symbol(stock_symbols.list, call_.sym)
                        THEN validating("info_symbols", call_, <<>>)
                        ELSE validating("similar", call_, <<>>)]

\* the symbol was found: get_stock_info asks is_valid_stock_symbol again, which
\* reads _stock_symbols again; None is the info of a symbol that is not in it
InfoSymbols(th) ==
    /\ UNCHANGED <<notTools, valFile, stock_data, stock_symbols>>
    /\ mcp.threads[th].pc = "info_symbols"
    /\ LET call_ == mcp.threads[th]
       IN IF is_valid_stock_symbol(stock_symbols.list, call_.sym)
          THEN /\ mcp' = [mcp EXCEPT !.threads[th] = validating("info_data", call_, <<>>)]
               /\ UNCHANGED <<lastQuery, keptQuery, lastInfo>>
          ELSE Validated(th, call_, [valid |-> TRUE, symbol |-> call_.sym, info |-> None], mcp)

\* get_stock_info: _load_stock_data returns the data held by now, and
\* stock_data.get(symbol.upper()) is the info of the result
InfoData(th) ==
    /\ UNCHANGED <<notTools, valFile, stock_data, stock_symbols>>
    /\ mcp.threads[th].pc = "info_data"
    /\ LET call_ == mcp.threads[th]
       IN Validated(th, call_,
                    [valid |-> TRUE, symbol |-> call_.sym,
                     info |-> IF upper(call_.sym) \in DOMAIN stock_data.dict
                              THEN stock_data.dict[upper(call_.sym)] ELSE None],
                    mcp)

\* the symbol was not found: _get_similar_symbols reads _stock_symbols again for
\* the suggestions of the result
Similar(th) ==
    /\ UNCHANGED <<notTools, valFile, stock_data, stock_symbols>>
    /\ mcp.threads[th].pc = "similar"
    /\ LET call_ == mcp.threads[th]
       IN Validated(th, call_,
                    [valid |-> FALSE,
                     error |-> <<"Stock symbol '", call_.sym, "' not found.">>,
                     symbol |-> call_.sym,
                     suggestions |-> get_similar_symbols(stock_symbols.list, call_.sym)],
                    mcp)

\* the steps of _load_stock_data on the tool threads
LoadSteps ==
    \/ \E th \in ToolThreads : LoadData(th)
    \/ \E th \in ToolThreads, read \in ReadOutcomes : LoadOpen(th, read)
    \/ \E th \in ToolThreads : LoadAssign(th)
    \/ \E th \in ToolThreads : LoadReturn(th)

\* the steps of the validator on the tool threads
ValidatorSteps ==
    \/ \E th \in ToolThreads : GetSymbols(th)
    \/ LoadSteps
    \/ \E th \in ToolThreads : SymbolsAssign(th)
    \/ \E th \in ToolThreads : SymbolsReturn(th)
    \/ \E th \in ToolThreads : InfoSymbols(th)
    \/ \E th \in ToolThreads : InfoData(th)
    \/ \E th \in ToolThreads : Similar(th)

\* --- the data fetch of a tool ---

\* thread th enters fetch_nepse_api of its data endpoint: now = time.time()
ToolEnter(th) ==
    /\ UNCHANGED <<notTools, valVars>>
    /\ mcp.threads[th].pc = "validated"
    /\ LET call_ == mcp.threads[th]
       IN mcp' = [mcp EXCEPT
                    !.threads[th] = at("data_lookup", call_,
                                       [endpoint |-> call_.endpoint, now |-> clock])]

\* the first locked block of the data fetch, some time after the clock was
\* read: the data is served from the cache and the tool returns, or an expired
\* entry is deleted and the lock released
ToolLookup(th) ==
    /\ UNCHANGED <<notTools, valVars>>
    /\ mcp.threads[th].pc = "data_lookup"
    /\ LET call_ == mcp.threads[th]
           looked == fetch_cached(mcp.cache, call_.endpoint, call_.now)
       IN mcp' = [mcp EXCEPT
                    !.cache = looked.cache,
                    !.threads[th] = IF looked.hit THEN NoTool
                                    ELSE [call_ EXCEPT !.pc = "data_upstream"],
                    !.last = IF looked.hit
                             THEN Returned(call_, [results |-> looked.data]) ELSE @]

\* httpx.get, raise_for_status and response.json() of the data fetch of thread
\* th: the thread holds the payload until it gets the lock, or the fetch raises
\* and the tool returns the error
ToolDataFetched(th, data_ok) ==
    /\ UNCHANGED <<notTools, valVars>>
    /\ mcp.threads[th].pc = "data_upstream"
    /\ LET call_ == mcp.threads[th]
       IN mcp' = [mcp EXCEPT
                    !.threads[th] =
                        IF data_ok
                        THEN at("data_store", call_,
                                [endpoint |-> call_.endpoint, now |-> call_.now,
                                 payload |-> [of |-> call_.endpoint]])
                        ELSE NoTool,
                    !.last = IF data_ok THEN @
                             ELSE Returned(call_, [error |-> "upstream"])]

\* the second locked block of the data fetch: the payload is stored with the
\* expiry counted from the clock reading the call took on entry, and the tool
\* returns it
ToolDataStore(th) ==
    /\ UNCHANGED <<notTools, valVars>>
    /\ mcp.threads[th].pc = "data_store"
    /\ LET call_ == mcp.threads[th]
       IN mcp' = [mcp EXCEPT
                    !.cache = fetch_store(@, call_.endpoint, call_.now, call_.payload),
                    !.threads[th] = NoTool,
                    !.last = Returned(call_, [results |-> call_.payload])]

\* the exchange opens or closes
MarketChange(state) ==
    /\ UNCHANGED <<notTools, valVars>>
    /\ state # mcp.market
    /\ mcp' = [mcp EXCEPT !.market = state]

\* the symbols a tool is called with; a tool without the parameter carries AB
ToolSymbols(tool) == IF takes_symbol(tool) THEN ToolInputs ELSE {SymAB}

\* the calls the other threads make beside the thread that makes every call
CallsBeside ==
    {<<"get_market_depth", SymAB>>, <<"get_company_floorsheet", SymAA>>, <<StatusTool, SymAB>>}

\* the tools of mcp_server.py, called on threads that run side by side
NextTools ==
    \/ \E tool \in ToolNames \cup {StatusTool} :
            \E symbol \in ToolSymbols(tool) : ToolCall("t1", tool, symbol)
    \/ \E th \in ToolThreads \ {"t1"}, call_ \in CallsBeside : ToolCall(th, call_[1], call_[2])
    \/ \E th \in ToolThreads : ToolStatusLookup(th)
    \/ \E th \in ToolThreads, status_ok \in BOOLEAN : ToolStatusFetched(th, status_ok)
    \/ \E th \in ToolThreads : ToolStatusStore(th)
    \/ \E th \in ToolThreads : ToolCheck(th)
    \/ ValidatorSteps
    \/ \E th \in ToolThreads : ToolEnter(th)
    \/ \E th \in ToolThreads : ToolLookup(th)
    \/ \E th \in ToolThreads, data_ok \in BOOLEAN : ToolDataFetched(th, data_ok)
    \/ \E th \in ToolThreads : ToolDataStore(th)
    \/ \E state \in MarketStates : MarketChange(state)
    \/ \E d \in {ENDPOINT_CACHE_TTL} : Tick(d)

\* the company names get_company_symbol is asked for beside the other tools
ToolQueries == {<<"n", "e", "p", "a", "l">>}

\* validate_stock_symbol_tool, get_company_name_from_symbol and
\* get_company_symbol called on threads that run side by side, while runs of
\* the updater rewrite the file
NextValThreads ==
    \/ \E th \in ToolThreads, symbol \in ToolInputs : ValidateCall(th, symbol)
    \/ \E th \in ToolThreads, input \in ToolInputs : FindCompanyName(th, input)
    \/ \E th \in ToolThreads, query \in ToolQueries : FindSymbol(th, query)
    \/ ValidatorSteps
    \/ \E th \in ToolThreads : Search(th)
    \/ SaveOpen
    \/ \E stock_map \in StockMaps : SaveDump(stock_map)

\* get_company_symbol called on threads that run side by side, one of them with
\* every query, while runs of the updater rewrite the file
NextSearch ==
    \/ \E query \in SearchQueries : FindSymbol("t1", query)
    \/ \E th \in ToolThreads \ {"t1"}, query \in ToolQueries : FindSymbol(th, query)
    \/ LoadSteps
    \/ \E th \in ToolThreads : Search(th)
    \/ SaveOpen
    \/ \E stock_map \in StockMaps : SaveDump(stock_map)

-----------------------------------------------------------------------------
(* socketServer.py: one WebSocket connection served by ws_listener.           *)

\* the messages a connection is followed for, and the frames the websockets
\* library holds for the `async for` while the handler is busy
MaxWsMessages == 3
MaxInbox == 2

\* a local variable no statement has assigned yet
Unbound == [unbound |-> TRUE]

\* websocket.remote_address[0] of the connection
ws_client_ip == "10.0.0.1"

\* symbol_routes of handle_route
symbol_routes == {"DailyScripPriceGraph", "CompanyDetails", "PriceVolumeHistory", "FloorsheetOf"}

\* the keys of route_handlers (the same in socketServer.py and zmqServer.py)
route_handlers ==
    {"Summary", "NepseIndex", "LiveMarket", "TopTenTradeScrips", "TopTenTransactionScrips",
     "TopTenTurnoverScrips", "TopGainers", "TopLosers", "IsNepseOpen", "DailyNepseIndexGraph",
     "DailySensitiveIndexGraph", "DailyFloatIndexGraph", "DailySensitiveFloatIndexGraph",
     "DailyBankSubindexGraph", "DailyDevelopmentBankSubindexGraph", "DailyFinanceSubindexGraph",
     "DailyHotelTourismSubindexGraph", "DailyHydroPowerSubindexGraph",
     "DailyInvestmentSubindexGraph", "DailyLifeInsuranceSubindexGraph",
     "DailyManufacturingProcessingSubindexGraph", "DailyMicrofinanceSubindexGraph",
     "DailyMutualFundSubindexGraph", "DailyNonLifeInsuranceSubindexGraph",
     "DailyOthersSubindexGraph", "DailyTradingSubindexGraph", "DailyScripPriceGraph",
     "CompanyList", "SectorScrips", "CompanyDetails", "PriceVolume", "PriceVolumeHistory",
     "Floorsheet", "FloorsheetOf", "SecurityList", "TradeTurnoverTransactionSubindices",
     "SupplyDemand", "NepseSubIndices"}

\* A frame as the client wrote it.  text: "invalid" is no JSON document, "array"
\* is the document [1], "object" is a JSON object with the keys that are present:
\* route (a string, or "absent"), params ("absent", "empty" for {}, "AB" and "AA"
\* for {"symbol": ...}, "list" for []) and messageId (has_id).
Frame(text, route, params, has_id) ==
    [text |-> text, route |-> route, params |-> params, has_id |-> has_id]

Frames ==
    {Frame("invalid", "absent", "absent", FALSE),
     Frame("array", "absent", "absent", FALSE),
     Frame("object", "Summary", "empty", TRUE),
     Frame("object", "Summary", "absent", FALSE),
     Frame("object", "CompanyDetails", "AB", TRUE),
     Frame("object", "CompanyDetails", "AA", TRUE),
     Frame("object", "CompanyDetails", "list", TRUE),
     Frame("object", "Nope", "empty", TRUE)}

\* json.loads(message): raises JSONDecodeError, or returns the value
json_loads(frame) ==
    IF frame.text = "invalid" THEN [raises |-> "JSONDecodeError"]
    ELSE [raises |-> "nothing", is_dict |-> frame.text = "object"]

\* request.get('params', {}) of an object: whether it is a dict, and its symbol
get_params(frame) ==
    IF frame.params \in {"absent", "empty"} THEN [is_dict |-> TRUE, symbol |-> <<>>]
    ELSE IF frame.params = "AB" THEN [is_dict |-> TRUE, symbol |-> SymAB]
    ELSE IF frame.params = "AA" THEN [is_dict |-> TRUE, symbol |-> SymAA]
    ELSE [is_dict |-> FALSE, symbol |-> <<>>]

\* request.get('messageId'): the n-th message of a client carries the id n
get_message_id(frame, n) == IF frame.has_id THEN [id |-> n] ELSE None

\* validate_stock_or_return_error; params.get("symbol") of a dict without the
\* key is None, which `not symbol` treats as the empty string
\* over the data and the symbol set the validator of the process holds
validate_stock_or_return_error(data, symbols, symbol) ==
    IF symbol = <<>> THEN [error |-> "Symbol is required"]
    ELSE LET validation_result == validate_stock_symbol(data, symbols, symbol)
         IN IF ~validation_result.valid
            THEN [error |-> IF validation_result.suggestions # <<>>
                            THEN <<validation_result.error, " Suggestions: ",
                                   validation_result.suggestions>>
                            ELSE validation_result.error]
            ELSE [valid |-> TRUE, symbol |-> validation_result.symbol]

\* handle_route of socketServer.py up to its first await: it raises, returns at
\* once, or awaits the upstream call of the route
ws_handle_route(data, symbols, route, params) ==
    IF route \in symbol_routes /\ ~params.is_dict
    THEN [ends |-> "raises", exception |-> "AttributeError"]
    ELSE IF route \in symbol_routes
            /\ "error" \in DOMAIN validate_stock_or_return_error(data, symbols, params.symbol)
    THEN [ends |-> "returns",
          data |-> validate_stock_or_return_error(data, symbols, params.symbol)]
    ELSE IF route \in route_handlers THEN [ends |-> "awaits"]
    ELSE [ends |-> "returns", data |-> [error |-> "Route not found"]]

ws_except_json_only(exception) ==
    IF exception = "JSONDecodeError" THEN "invalid_json" ELSE "escapes"

\* the except clauses of the inner try: JSONDecodeError, then Exception
ws_except(exception) ==
    IF exception = "JSONDecodeError" THEN "invalid_json" ELSE "route_error"

\* the "rate_limit" object of a response
rate_limit_of(info) ==
    [remaining |-> info.remaining, limit |-> info.limit, reset_time |-> info.reset_time]

\* the frame sent when check_rate_limit rejects the message
ws_rejection(info) ==
    [error |-> "Rate limit exceeded for messages", limit |-> info.limit,
     remaining |-> info.remaining, reset_time |-> info.reset_time]

\* the frame sent for handled data
ws_response(message_id, data, info) ==
    [messageId |-> message_id, data |-> data, rate_limit |-> rate_limit_of(info)]

\* the frame an except clause sends; message_id is the local of ws_listener,
\* which keeps the value an earlier iteration gave it
ws_error(clause, message_id, exception) ==
    IF clause = "invalid_json" THEN [error |-> "Invalid JSON"]
    ELSE [messageId |-> IF message_id = Unbound THEN None ELSE message_id,
          error |-> exception]

\* one iteration of the `async for`, from check_rate_limit to the first await of
\* handle_route or to the frame sent: what is sent (if anything yet), the local
\* message_id afterwards, and whether the loop goes on
ws_iteration(data, symbols, frame, n, allowed, info, message_id) ==
    IF ~allowed
    THEN [ends |-> "sent", send |-> ws_rejection(info), message_id |-> message_id]
    ELSE LET request == json_loads(frame)
         IN IF request.raises # "nothing"
            THEN [ends |-> ws_except(request.raises),
                  send |-> ws_error(ws_except(request.raises), message_id, request.raises),
                  message_id |-> message_id]
            ELSE IF ~request.is_dict
            THEN [ends |-> ws_except("AttributeError"),
                  send |-> ws_error(ws_except("AttributeError"), message_id, "AttributeError"),
                  message_id |-> message_id]
            ELSE LET own == get_message_id(frame, n)
                     routed == ws_handle_route(data, symbols, frame.route, get_params(frame))
                 IN IF routed.ends = "raises"
                    THEN [ends |-> ws_except(routed.exception),
                          send |-> ws_error(ws_except(routed.exception), own, routed.exception),
                          message_id |-> own]
                    ELSE IF routed.ends = "returns"
                    THEN [ends |-> "sent", send |-> ws_response(own, routed.data, info),
                          message_id |-> own]
                    ELSE [ends |-> "awaits", send |-> None, message_id |-> own]

\* the symbol the iteration hands to validate_stock_symbol; <<>> when it does
\* not get there (message rejected, no JSON object, no symbol route, params no
\* dict, symbol missing)
ws_validated(frame, allowed) ==
    IF /\ allowed
       /\ json_loads(frame).raises = "nothing"
       /\ json_loads(frame).is_dict
       /\ frame.route \in symbol_routes
       /\ get_params(frame).is_dict
    THEN get_params(frame).symbol
    ELSE <<>>

NoFrameSent == [n |-> 0]

\* history: whether a frame sent tells of an error, at its top or inside its data
is_error(response) ==
    \/ "error" \in DOMAIN response
    \/ "data" \in DOMAIN response /\ "error" \in DOMAIN response.data

\* a frame of the client reaches the connection
WsArrive(frame) ==
    /\ UNCHANGED otherThanConn
    /\ ws.pc # "closed"
    /\ ws.arrived < MaxWsMessages
    /\ Len(ws.inbox) < MaxInbox
    /\ ws' = [ws EXCEPT !.arrived = @ + 1,
                        !.inbox = Append(@, [frame |-> frame, n |-> ws.arrived + 1])]
    /\ UNCHANGED <<zmq, http, mcp, limiterVars>>

\* the `async for` hands the next frame to the body, which runs to its first
\* await inside handle_route or to the send that ends the iteration; on a symbol
\* route the validator of the process loads its data if it has not yet (no
\* other coroutine runs meanwhile), and an error of open() that it does not
\* catch is answered by `except Exception as route_error`
WsListen ==
    /\ UNCHANGED <<cacheVars, aggVars, pageVars, stockmap_file, saving, upd>>
    /\ ws.pc = "waiting"
    /\ ws.inbox # <<>>
    /\ LET message == Head(ws.inbox)
           res == is_allowed(requests["socketServer"], last_cleanup["socketServer"],
                             ws_client_ip, "websocket_message", now)
           symbol == ws_validated(message.frame, res.allowed)
       IN \/ /\ \E order \in OrdersFor(symbol) : LoadSymbols(reaches_load(symbol), order)
             /\ UNCHANGED <<lastQuery, keptQuery, lastSearch, index_names, lastIndexQuery,
                            lastInfo>>
          \/ reaches_load(symbol) /\ LoadRaises("validate_stock_symbol")
    /\ LET message == Head(ws.inbox)
           res == is_allowed(requests["socketServer"], last_cleanup["socketServer"],
                             ws_client_ip, "websocket_message", now)
           load_raised == /\ reaches_load(ws_validated(message.frame, res.allowed))
                          /\ stock_data' = None
           own == get_message_id(message.frame, message.n)
           step == IF load_raised
                   THEN [ends |-> ws_except("OSError"),
                         send |-> ws_error(ws_except("OSError"), own, "OSError"),
                         message_id |-> own]
                   ELSE ws_iteration(stock_data', symbols_of(stock_symbols'), message.frame,
                                     message.n, res.allowed, res.info, ws.message_id)
       IN /\ requests' = [requests EXCEPT !["socketServer"] = res.requests]
          /\ last_cleanup' = [last_cleanup EXCEPT !["socketServer"] = res.last_cleanup]
          /\ ws' = [ws EXCEPT
                      !.inbox = Tail(@),
                      !.taken = @ + 1,
                      !.message_id = step.message_id,
                      !.pc = IF step.ends = "awaits" THEN "handling"
                             ELSE IF step.ends = "escapes" THEN "closed"
                             ELSE "waiting",
                      !.current = IF step.ends = "awaits"
                                  THEN [frame |-> message.frame, n |-> message.n,
                                        info |-> res.info]
                                  ELSE None,
                      !.sent = IF step.ends \in {"awaits", "escapes"} THEN @ ELSE @ + 1,
                      !.lastSent = IF step.ends \in {"awaits", "escapes"} THEN @
                                   ELSE [n |-> message.n, frame |-> message.frame,
                                         allowed |-> res.allowed,
                                         raised |-> step.ends = "route_error"
                                                    /\ json_loads(message.frame).raises = "nothing"
                                                    /\ json_loads(message.frame).is_dict,
                                         response |-> step.send],
                      !.errors = IF step.ends \in {"awaits", "escapes"} THEN @
                                 ELSE IF is_error(step.send) THEN @ + 1 ELSE @]
    /\ UNCHANGED <<zmq, http, mcp, now, slots, admitted, last, ncalls, nrejected>>

\* how the awaited handle_route ends: it returns the data, or the upstream call
\* raises; a body that is no JSON raises json.JSONDecodeError
HandlerOutcomes == {"returns", "UpstreamError", "JSONDecodeError"}

\* the upstream call of the route ends: its data is sent, or it raised and the
\* except clause that matches the exception answers
WsHandlerEnds(outcome) ==
    /\ UNCHANGED otherThanConn
    /\ ws.pc = "handling"
    /\ LET ok == outcome = "returns"
           clause == IF ok THEN "none" ELSE ws_except(outcome)
           response == IF ok THEN ws_response(ws.message_id, [payload |-> ws.current.frame.route],
                                              ws.current.info)
                       ELSE ws_error(clause, ws.message_id, outcome)
       IN ws' = [ws EXCEPT
                   !.pc = IF clause = "escapes" THEN "closed" ELSE "waiting",
                   !.current = None,
                   !.sent = IF clause = "escapes" THEN @ ELSE @ + 1,
                   !.lastSent = IF clause = "escapes" THEN @
                                ELSE [n |-> ws.current.n, frame |-> ws.current.frame,
                                      allowed |-> TRUE, raised |-> ~ok,
                                      response |-> response],
                   !.errors = IF ok \/ clause = "escapes" THEN @ ELSE @ + 1]
    /\ UNCHANGED <<zmq, http, mcp, limiterVars>>

-----------------------------------------------------------------------------
(* zmqServer.py: the REP socket served by zmq_listener.                       *)

MaxZmqMessages == 3

\* the messages the socket is exercised with, written as the WebSocket frames are
ZmqFrames ==
    {Frame("invalid", "absent", "absent", FALSE),
     Frame("array", "absent", "absent", FALSE),
     Frame("object", "Summary", "empty", FALSE),
     Frame("object", "absent", "absent", FALSE),
     Frame("object", "CompanyDetails", "AB", FALSE),
     Frame("object", "CompanyDetails", "AA", FALSE),
     Frame("object", "CompanyDetails", "empty", FALSE),
     Frame("object", "CompanyDetails", "list", FALSE),
     Frame("object", "Nope", "empty", FALSE)}

\* socket.recv_json(): raises when the frame is no JSON document
recv_json(frame) ==
    IF frame.text = "invalid" THEN [raises |-> "ValueError"]
    ELSE [raises |-> "nothing", is_dict |-> frame.text = "object"]

\* message.get("route"): None when the key is absent
get_route(frame) == IF frame.route = "absent" THEN "None" ELSE frame.route

\* handle_route of zmqServer.py up to its first await: the lambda of a symbol
\* route evaluates params.get("symbol") when it is called
zmq_handle_route(route, params) ==
    IF route \notin route_handlers
    THEN [ends |-> "returns", data |-> [error |-> "Route not found"]]
    ELSE IF route \in symbol_routes /\ ~params.is_dict
    THEN [ends |-> "raises", exception |-> "AttributeError"]
    ELSE [ends |-> "awaits"]

\* `except Exception as e: print(f"Error handling route {route}: {e}")`, then
\* send_json({}).  The f-string reads the local route: when no iteration has
\* assigned it yet the read raises UnboundLocalError inside the except clause,
\* which leaves the while loop.
zmq_except(route) ==
    IF route = "Unbound" THEN [ends |-> "escapes"]
    ELSE [ends |-> "sent", send |-> <<>>]

\* one iteration of the while loop after recv_json returned or raised, up to
\* the first await of handle_route or to the reply
zmq_iteration(frame, route) ==
    LET message == recv_json(frame)
    IN IF message.raises # "nothing" \/ ~message.is_dict
       THEN [step |-> zmq_except(route), route |-> route]
       ELSE LET routed == zmq_handle_route(get_route(frame), get_params(frame))
            IN [step |-> IF routed.ends = "raises" THEN zmq_except(get_route(frame))
                         ELSE IF routed.ends = "returns"
                         THEN [ends |-> "sent", send |-> routed.data]
                         ELSE [ends |-> "awaits"],
                route |-> get_route(frame)]

NoReply == [n |-> 0]

\* wait_for(socket.recv_json(), timeout=1.0) raises TimeoutError: continue
ZmqTimeout ==
    /\ UNCHANGED otherThanConn
    /\ zmq.pc = "recv"
    /\ zmq' = [zmq EXCEPT !.timed_out = TRUE]
    /\ UNCHANGED <<ws, http, mcp, limiterVars>>

\* a message is received and the iteration runs to its first await or its reply
ZmqReceive(frame) ==
    /\ UNCHANGED otherThanConn
    /\ zmq.pc = "recv"
    /\ zmq.received < MaxZmqMessages
    /\ LET it == zmq_iteration(frame, zmq.route)
           n == zmq.received + 1
       IN zmq' = [pc |-> IF it.step.ends = "awaits" THEN "handling"
                         ELSE IF it.step.ends = "escapes" THEN "stopped"
                         ELSE "recv",
                  route |-> it.route,
                  received |-> n,
                  replied |-> IF it.step.ends = "sent" THEN zmq.replied + 1 ELSE zmq.replied,
                  lastReply |-> IF it.step.ends = "sent"
                                THEN [n |-> n, frame |-> frame, reply |-> it.step.send]
                                ELSE zmq.lastReply,
                  current |-> IF it.step.ends = "awaits" THEN frame ELSE None,
                  timed_out |-> FALSE]
    /\ UNCHANGED <<ws, http, mcp, limiterVars>>

\* how the awaited handle_route ends: it returns the response, or the upstream
\* call raises; asyncio.TimeoutError is among the exceptions it can raise
ZmqOutcomes == {"returns", "UpstreamError", "TimeoutError"}

\* the upstream call of the route ends: send_json(response), or it raised.  The
\* await is inside the try of wait_for(recv_json): `except asyncio.TimeoutError:
\* continue` also catches a TimeoutError of the handler and the loop receives
\* again without a reply; any other exception reaches `except Exception`
ZmqHandlerEnds(outcome) ==
    /\ UNCHANGED otherThanConn
    /\ zmq.pc = "handling"
    /\ LET step == IF outcome = "returns"
                   THEN [ends |-> "sent", send |-> [payload |-> zmq.route]]
                   ELSE IF outcome = "TimeoutError" THEN [ends |-> "continue"]
                   ELSE zmq_except(zmq.route)
       IN zmq' = [zmq EXCEPT
                    !.pc = IF step.ends = "escapes" THEN "stopped" ELSE "recv",
                    !.replied = IF step.ends = "sent" THEN @ + 1 ELSE @,
                    !.lastReply = IF step.ends = "sent"
                                  THEN [n |-> zmq.received, frame |-> zmq.current,
                                        reply |-> step.send]
                                  ELSE @,
                    !.current = None]
    /\ UNCHANGED <<ws, http, mcp, limiterVars>>

InitConn ==
    /\ ws = [pc |-> "waiting", inbox |-> <<>>, arrived |-> 0, taken |-> 0, sent |-> 0,
             message_id |-> Unbound, current |-> None, lastSent |-> NoFrameSent,
             errors |-> 0]
    /\ zmq = [pc |-> "recv", route |-> "Unbound", received |-> 0, replied |-> 0,
              lastReply |-> NoReply, current |-> None, timed_out |-> FALSE]
    /\ http = NoResponse
    /\ mcp = [market |-> "CLOSE", cache |-> [e \in ToolEndpoints |-> None], calls |-> 0,
              threads |-> [th \in ToolThreads |-> NoTool], last |-> NoToolCall]

\* one WebSocket connection of socketServer.py
NextWs ==
    \/ \E frame \in Frames : WsArrive(frame)
    \/ WsListen
    \/ \E outcome \in HandlerOutcomes : WsHandlerEnds(outcome)
    \/ \E d \in TimeSteps : Advance(d)

\* the serving loop of zmqServer.py
NextZmq ==
    \/ ZmqTimeout
    \/ \E frame \in ZmqFrames : ZmqReceive(frame)
    \/ \E outcome \in ZmqOutcomes : ZmqHandlerEnds(outcome)

-----------------------------------------------------------------------------
(* mcp_server.py: paginate_list, which every listing tool ends with *)

MaxItems == 12     \* the longest list paginated
MaxLimit == 4      \* the largest limit a caller passes
MaxPage == 5       \* the largest page a caller asks for

DefaultLimit == 10 \* mcp_server.py:851
DefaultPage == 1   \* mcp_server.py:853

\* the values a caller can pass for limit and page: None, an int, a bool (in
\* Python an instance of int, worth 0 or 1) or anything else, a str say
NoneArg == [kind |-> "none", v |-> 0]
IntArg(n) == [kind |-> "int", v |-> n]
BoolArg(b) == [kind |-> "bool", v |-> IF b THEN 1 ELSE 0]
StrArg == [kind |-> "str", v |-> 0]

\* isinstance(x, int)
isinstance_int(x) == x.kind \in {"int", "bool"}

\* items[start:end] for 0 <= start <= end, indices from 0, end excluded; a mutation
\* of slice that keeps the item at end
slice_closed(items, start, end) ==
    IF start >= Len(items) THEN <<>>
    ELSE SubSeq(items, start + 1, IF end + 1 < Len(items) THEN end + 1 ELSE Len(items))

\* items[start:end] for 0 <= start <= end: a slice is clipped to the list
slice(items, start, end) ==
    IF start >= Len(items) THEN <<>>
    ELSE SubSeq(items, start + 1, IF end < Len(items) THEN end ELSE Len(items))

paginate_list(items, limit, page) ==
    LET total == Len(items)
        limit1 == IF limit.kind = "none" \/ ~isinstance_int(limit) \/ limit.v <= 0
                  THEN IntArg(DefaultLimit) ELSE limit
        page1 == IF page.kind = "none" \/ ~isinstance_int(page) \/ page.v <= 0
                 THEN IntArg(DefaultPage) ELSE page
        start == (page1.v - 1) * limit1.v
        end == start + limit1.v
        paged_items == slice(items, start, end)
    IN  [paged_items |-> paged_items, total |-> total, page |-> page1, limit |-> limit1]

NoPage == [called |-> FALSE]

InitPage == paged = NoPage

ItemLists == {[i \in 1..n |-> i] : n \in 0..MaxItems}
LimitArgs == {NoneArg, StrArg, BoolArg(TRUE), BoolArg(FALSE)} \cup {IntArg(n) : n \in -1..MaxLimit}
PageArgs == {NoneArg, StrArg, BoolArg(TRUE), BoolArg(FALSE)} \cup {IntArg(n) : n \in -1..MaxPage}

\* one call of paginate_list
Paginate(items, limit, page) ==
    /\ UNCHANGED otherThanPage
    /\ paged' = [called |-> TRUE, items |-> items, limit |-> limit, page |-> page,
                 result |-> paginate_list(items, limit, page)]

NextPaginate ==
    \E items \in ItemLists, limit \in LimitArgs, page \in PageArgs : Paginate(items, limit, page)

-----------------------------------------------------------------------------
(* The processes run independently of each other; each specification follows one. *)

Init == InitLimiter /\ InitCache /\ InitAgg /\ InitVal /\ InitConn /\ InitPage

\* server.py, socketServer.py and zmqServer.py with their rate limiters
Next == NextLimiter

Spec == Init /\ [][Next]_vars

\* rate_limiter.py over pauses longer than the cleanup interval
SpecSweep == Init /\ [][NextSweep]_vars

\* mcp_server.py: fetch_nepse_api and its cache
SpecCache == Init /\ [][NextCache]_vars

\* mcp_server.py: concurrent fetch_nepse_api calls for one path
SpecCacheRace == Init /\ [][NextCacheRace]_vars

\* one composite aggregation, in any of the three bindings
SpecAgg == Init /\ [][NextAgg]_vars

\* the validator of one server process, and the updater rewriting its file
SpecVal == Init /\ [][NextVal]_vars

\* the validator of one server process over repeated queries
SpecValRepeat == Init /\ [][NextValRepeat]_vars

\* paginate_list over every list, limit and page
SpecPaginate == Init /\ [][NextPaginate]_vars

\* the company-name search on the threads of mcp_server.py, and the updater
SpecSearch == Init /\ [][NextSearch]_vars

\* single validate_stock_symbol calls of one server process, and the updater
SpecLookup == Init /\ [][NextLookup]_vars

\* updateStocksMap.py alone
SpecUpdater == Init /\ [][NextUpdater]_vars

\* one WebSocket connection and the limiter of its process
SpecWs == Init /\ [][NextWs]_vars

\* the queue-protocol listener
SpecZmq == Init /\ [][NextZmq]_vars

\* the HTTP binding and the limiter of its process
SpecHttp == Init /\ [][NextHttp]_vars

\* the market-state tools of mcp_server.py
SpecTools == Init /\ [][NextTools]_vars

\* the validator of mcp_server.py, asked by tool threads
SpecValThreads == Init /\ [][NextValThreads]_vars

\* the index-name validation of one server process
SpecIndex == Init /\ [][NextIndex]_vars

-----------------------------------------------------------------------------
(* Properties of the rate limiter and its callers, checked under Spec *)

Categories == {"default", "validation", "market_data", "websocket", "websocket_message", "health"}

Keys == LimiterProcs \X Clients \X Endpoints

LimitOf(endpoint) == limits[get_endpoint_category(endpoint)]

\* C1: an admit check made when the requests already admitted to that client and
\* endpoint in the trailing window number the category's limit is rejected, and
\* one made when none was admitted in the trailing window is admitted.
C1_RejectAtLimitAdmitAfterWindow ==
    last.called =>
        /\ (last.prior = LimitOf(last.endpoint) => ~last.allowed)
        /\ (last.prior = 0 => last.allowed)

\* a window was filled, a further request rejected, and after the window elapsed
\* the next request was admitted
C1_Witness ==
    /\ last.called /\ last.allowed /\ last.prior = 0
    /\ Len(admitted[last.proc][last.ip][last.endpoint]) = LimitOf(last.endpoint) + 1
    /\ nrejected = 1
    /\ ncalls = LimitOf(last.endpoint) + 2

\* the requests of client ip admitted by process proc in category cat within the
\* window that ends at time t, whatever their paths
CategoryCount(proc, ip, cat, t) ==
    LET es == {e \in Endpoints : get_endpoint_category(e) = cat}
    IN Cardinality({<<e, i>> \in es \X (1..MaxCalls) :
                       /\ i <= Len(admitted[proc][ip][e])
                       /\ admitted[proc][ip][e][i] >= t - window_ticks
                       /\ admitted[proc][ip][e][i] <= t})

\* C2: for every client and category, the client's requests admitted within any
\* trailing window, over all paths of the category, never exceed the category's limit.
C2_PerCategoryLimit ==
    \A proc \in LimiterProcs, ip \in Clients, cat \in Categories :
        CategoryCount(proc, ip, cat, now) <= limits[cat]

\* C3: a request is dispatched to a route handler only after exactly one admit check.
C3_OneCheckBeforeDispatch ==
    \A s \in Slots : slots[s].pc = "handling" => slots[s].checks = 1

\* C4: under every interleaving of the handlers, no window holds more timestamps
\* than its category's limit, and no more than limit requests of one client on
\* one endpoint are admitted within a trailing window.
C4_WindowWithinLimit ==
    \A k \in Keys :
        /\ Len(requests[k[1]][k[2]][k[3]]) <= LimitOf(k[3])
        /\ Cardinality(InWindow(admitted[k[1]][k[2]][k[3]], now)) <= LimitOf(k[3])

\* two requests of one client on one endpoint are being handled side by side,
\* and a third was rejected because their window is full
C4_Witness ==
    /\ slots[1].pc = "handling" /\ slots[2].pc = "handling"
    /\ slots[1].proc = "server" /\ slots[2].proc = "server"
    /\ slots[1].ip = slots[2].ip /\ slots[1].endpoint = slots[2].endpoint
    /\ Len(requests["server"][slots[1].ip][slots[1].endpoint]) = LimitOf(slots[1].endpoint)
    /\ last.called /\ ~last.allowed
    /\ last.ip = slots[1].ip /\ last.endpoint = slots[1].endpoint

-----------------------------------------------------------------------------
(* Properties of the endpoint response cache, checked under SpecCache *)

\* C5: for callers that do not overlap, a call on path P that starts within
\* ENDPOINT_CACHE_TTL seconds of the start of the call that last fetched P from
\* the upstream returns that call's payload from the cache, and that fetch stays
\* the only upstream call made for P by calls starting in its TTL window.
C5_OneFetchPerTtlWindow ==
    /\ \A p \in Paths : (~overlap[p] /\ win[p] # None) => win[p].ups = 1
    /\ (/\ lastFetch.done
        /\ ~overlap[lastFetch.path]
        /\ lastFetch.opened # None
        /\ lastFetch.start < lastFetch.opened.start + ENDPOINT_CACHE_TTL)
       => (lastFetch.outcome = "hit" /\ lastFetch.payload = lastFetch.opened.payload)

\* a call starting in the last second of the TTL window is served the stored
\* payload although the upstream has published new data since
C5_Witness ==
    /\ lastFetch.done /\ ~overlap[lastFetch.path]
    /\ lastFetch.outcome = "hit"
    /\ lastFetch.opened # None
    /\ lastFetch.start = lastFetch.opened.start + ENDPOINT_CACHE_TTL - 1
    /\ lastFetch.payload # upstream
    /\ win[lastFetch.path].ups = 1

\* C6: a call that starts at or after the expiry instant of an entry (TTL seconds
\* after the start of the call that stored it) is never served that entry, and
\* its lookup deletes the entry and goes to the upstream.
C6_NoStaleHit ==
    /\ [](lastFetch.done /\ lastFetch.outcome = "hit"
            => lastFetch.start < lastFetch.served.born + ENDPOINT_CACHE_TTL)
    /\ [][\A c \in Callers :
            (/\ call[c].pc = "lookup" /\ call'[c].pc # "lookup"
             /\ endpoint_cache[call[c].path] # None
             /\ call[c].now >= endpoint_cache[call[c].path].born + ENDPOINT_CACHE_TTL)
            => (/\ endpoint_cache'[call[c].path] = None
                /\ call'[c].pc = "upstream")]_vars

\* a call starting exactly at the expiry instant found the expired entry, deleted
\* it and is about to call the upstream
C6_Witness ==
    \E c \in Callers :
        /\ call[c].pc = "upstream"
        /\ call[c].opened # None
        /\ call[c].now = call[c].opened.start + ENDPOINT_CACHE_TTL
        /\ endpoint_cache[call[c].path] = None
        /\ ~overlap[call[c].path]

\* C7: a failed upstream fetch ends the call with an error and no payload, leaves
\* the cache as it was (no entry for the path when callers do not overlap), and
\* the next call on the path goes to the upstream again.
C7_FailureNotCached ==
    /\ [](lastFetch.done /\ lastFetch.outcome = "error" => lastFetch.payload = None)
    /\ [](lastFetch.done /\ lastFetch.prev = "error" /\ ~overlap[lastFetch.path]
            => lastFetch.outcome # "hit")
    /\ [][\A c \in Callers :
            (call[c].pc = "upstream" /\ call'[c].pc = "idle")
            => (/\ lastFetch'.outcome = "error"
                /\ endpoint_cache' = endpoint_cache
                /\ (~overlap[call[c].path] => endpoint_cache'[call[c].path] = None))]_vars

\* after a failed fetch of a path, the next call on it fetched a payload from
\* the upstream
C7_Witness ==
    /\ lastFetch.done /\ lastFetch.prev = "error" /\ lastFetch.outcome = "fetched"
    /\ ~overlap[lastFetch.path]
    /\ endpoint_cache[lastFetch.path] # None
    /\ endpoint_cache[lastFetch.path].data = lastFetch.payload

-----------------------------------------------------------------------------
(* Properties of the composite aggregation, checked under SpecAgg.  They are   *)
(* stated over the lists as the upstream returned them.                        *)

Listed(objs, k) == \E i \in DOMAIN objs : objs[i].symbol = k

\* the entry of symbol k that counts: the last one in the list
EntryOf(objs, k) ==
    objs[CHOOSE i \in DOMAIN objs :
            objs[i].symbol = k /\ \A j \in DOMAIN objs : j > i => objs[j].symbol # k]

FieldOrZero(objs, k, field) ==
    IF Listed(objs, k) /\ field \in DOMAIN EntryOf(objs, k)
    THEN EntryOf(objs, k)[field] ELSE 0

LtpOf(got, k) ==
    IF Listed(got[5], k) THEN EntryOf(got[5], k).ltp
    ELSE IF Listed(got[6], k) THEN EntryOf(got[6], k).ltp
    ELSE 0

PreviousCloseOf(got, k) == FieldOrZero(got[7], k, "previousClose")

CompanySymbols(got) == {got[1][i].symbol : i \in DOMAIN got[1]}

Trading(got, k) == LtpOf(got, k) # 0 /\ PreviousCloseOf(got, k) # 0

AggDone == agg.pc = "done" /\ agg.result.ok

\* C8: in a completed aggregation a symbol of the company list is in
\* scripsDetails exactly if its last-traded price (gainers, else losers, else 0)
\* and its previousClose (price-volume, else 0) are both non-zero, and an included
\* symbol carries turnover, transaction and volume of the top lists, or 0.
C8_IncludedIffBothNonZero ==
    AggDone =>
        LET got == agg.got
            sd == agg.result.scripsDetails
        IN /\ DOMAIN sd \subseteq CompanySymbols(got)
           /\ \A k \in CompanySymbols(got) : k \in DOMAIN sd <=> Trading(got, k)
           /\ \A k \in DOMAIN sd :
                /\ sd[k].ltp = LtpOf(got, k)
                /\ sd[k].previousClose = PreviousCloseOf(got, k)
                /\ sd[k].Turnover = FieldOrZero(got[2], k, "turnover")
                /\ sd[k].transaction = FieldOrZero(got[3], k, "totalTrades")
                /\ sd[k].volume = FieldOrZero(got[4], k, "shareTraded")

\* one symbol dropped for a zero price with previousClose 3, one dropped for a
\* zero previousClose with price 10, one included with no turnover entry
C8_Witness ==
    /\ AggDone
    /\ \E a, b, c \in CompanySymbols(agg.got) :
        /\ LtpOf(agg.got, a) = 0 /\ PreviousCloseOf(agg.got, a) = 3
        /\ a \notin DOMAIN agg.result.scripsDetails
        /\ LtpOf(agg.got, b) = 10 /\ PreviousCloseOf(agg.got, b) = 0
        /\ b \notin DOMAIN agg.result.scripsDetails
        /\ c \in DOMAIN agg.result.scripsDetails
        /\ ~Listed(agg.got[2], c)
        /\ agg.result.scripsDetails[c].Turnover = 0

RECURSIVE SumField(_, _, _)
SumField(symbols, objs, field) ==
    IF symbols = {} THEN 0
    ELSE LET k == CHOOSE x \in symbols : TRUE
         IN FieldOrZero(objs, k, field) + SumField(symbols \ {k}, objs, field)

TradingIn(got, sector) ==
    {k \in CompanySymbols(got) :
        EntryOf(got[1], k).sectorName = sector /\ Trading(got, k)}

\* C9: in a completed aggregation every sector's transaction, volume and
\* totalTurnover are the sums of those fields over the non-excluded symbols of
\* the sector; a dropped symbol adds nothing.
C9_SectorTotals ==
    AggDone =>
        \A sector \in DOMAIN agg.result.sectorsDetails :
            LET d == agg.result.sectorsDetails[sector]
                in_sector == TradingIn(agg.got, sector)
            IN /\ d.transaction = SumField(in_sector, agg.got[3], "totalTrades")
               /\ d.volume = SumField(in_sector, agg.got[4], "shareTraded")
               /\ d.totalTurnover = SumField(in_sector, agg.got[2], "turnover")
               /\ \A k \in in_sector :
                    /\ k \in DOMAIN agg.result.scripsDetails
                    /\ agg.result.scripsDetails[k].sector = sector

\* Finance holds two included symbols with turnover 100 and 50 and totals 150;
\* Hydro Power holds only a dropped symbol with turnover 30 and totals 0
C9_Witness ==
    /\ AggDone
    /\ "Finance" \in DOMAIN agg.result.sectorsDetails
    /\ agg.result.sectorsDetails["Finance"].totalTurnover = 150
    /\ Cardinality(TradingIn(agg.got, "Finance")) = 2
    /\ "Hydro Power" \in DOMAIN agg.result.sectorsDetails
    /\ agg.result.sectorsDetails["Hydro Power"].totalTurnover = 0
    /\ \E k \in CompanySymbols(agg.got) :
        /\ EntryOf(agg.got[1], k).sectorName = "Hydro Power"
        /\ FieldOrZero(agg.got[2], k, "turnover") = 30
        /\ ~Trading(agg.got, k)

-----------------------------------------------------------------------------
(* Properties of the validator, checked under SpecVal.                         *)

\* the trimmed, upper-cased form of an input
NormalForm(input) == strip(upper(input))

\* C10: the result of validate_stock_symbol depends only on the trimmed,
\* upper-cased form of the input (two calls with the same form get the same
\* result), and an input that is empty after trimming gets the 'required' result.
C10_ResultDependsOnNormalForm ==
    /\ (keptQuery.asked /\ lastQuery.asked
            /\ NormalForm(keptQuery.input) = NormalForm(lastQuery.input))
        => keptQuery.result = lastQuery.result
    /\ (lastQuery.asked /\ NormalForm(lastQuery.input) = <<>>)
        => lastQuery.result = Required

\* the symbols the validator holds
Held == {symbols_of(stock_symbols)[i] : i \in DOMAIN symbols_of(stock_symbols)}

\* C11: a validate_stock_symbol call whose normalized input is not a symbol the
\* validator holds returns an invalid result; for a non-empty input it carries a
\* suggestions list of at most max_suggestions entries, each a held symbol that
\* starts with the first two characters of the normalized input.  A held symbol
\* is answered as valid.
C11_SuggestionsBoundedFromSnapshot ==
    lastQuery.asked =>
        LET r == lastQuery.result
            q == NormalForm(lastQuery.input)
        IN /\ r.valid <=> q \in Held
           /\ (~r.valid /\ lastQuery.input # <<>>) =>
                /\ "suggestions" \in DOMAIN r
                /\ Len(r.suggestions) <= max_suggestions
                /\ \A i \in DOMAIN r.suggestions :
                    /\ r.suggestions[i] \in Held
                    /\ Len(r.suggestions[i]) >= Len(first_two(q))
                    /\ \A j \in 1..Len(first_two(q)) : r.suggestions[i][j] = q[j]
           /\ (~r.valid /\ lastQuery.input = <<>>) => r = Required

\* an unknown one-letter query with more held symbols on its prefix than the cap:
\* the list is full and some matching symbol is left out
C11_Witness ==
    /\ lastQuery.asked
    /\ ~lastQuery.result.valid
    /\ NormalForm(lastQuery.input) = <<"A">>
    /\ Len(lastQuery.result.suggestions) = max_suggestions
    /\ \E k \in Held :
        /\ k[1] = "A"
        /\ \A i \in DOMAIN lastQuery.result.suggestions : lastQuery.result.suggestions[i] # k

-----------------------------------------------------------------------------
(* Properties of the company-name search, checked under SpecSearch.            *)

\* the stored companies at the last search: the symbols that carry a name in
\* the data the call was returned (for the empty query, in the data held)
Stored == IF lastSearch.over = None THEN {}
          ELSE {k \in DOMAIN lastSearch.over.dict : "name" \in DOMAIN lastSearch.over.dict[k]}

\* the normalized token of the last query and of a stored company
QueryToken == normalize_company_name(strip(lastSearch.input))

CompanyToken(k) == normalize_company_name(lastSearch.over.dict[k].name)

ExactFor(k) == lower(QueryToken) = lower(CompanyToken(k))

PartialFor(k) ==
    /\ ~ExactFor(k)
    /\ \/ startswith(lower(CompanyToken(k)), lower(QueryToken))
       \/ startswith(lower(QueryToken), lower(CompanyToken(k)))

Matching == {k \in Stored : ExactFor(k) \/ PartialFor(k)}

\* what the claim says of one answered query
SearchAnswerRight ==
    LET r == lastSearch.result
    IN /\ r.found <=> Matching # {}
       /\ r.found =>
            /\ Len(r.matches) <= max_matches
            /\ r.total_matches = Cardinality(Matching)
            /\ Len(r.matches) = (IF Cardinality(Matching) < max_matches
                                 THEN Cardinality(Matching) ELSE max_matches)
            /\ \A i \in DOMAIN r.matches :
                /\ r.matches[i].symbol \in Matching
                /\ r.matches[i].match_type =
                      (IF ExactFor(r.matches[i].symbol) THEN "exact" ELSE "partial")
            /\ \A i, j \in DOMAIN r.matches :
                /\ i # j => r.matches[i].symbol # r.matches[j].symbol
                /\ i < j => ~(r.matches[i].match_type = "partial"
                              /\ r.matches[j].match_type = "exact")
            \* the cap drops partial matches before exact ones
            /\ (\E i \in DOMAIN r.matches : r.matches[i].match_type = "partial")
                => \A k \in Matching : ExactFor(k)
                        => \E i \in DOMAIN r.matches : r.matches[i].symbol = k

\* C12 (as stated): for every query, find_symbol_by_company_name returns at most
\* max_matches matches, exact matches before partial ones, total_matches counts
\* all matches before the cap, and found holds exactly if a stored company matches.
C12_SearchAsStated == lastSearch.asked => SearchAnswerRight

\* C12 (amended): the same for every non-empty query; the empty query is
\* answered found = false ('Company name is required') whatever is stored.
C12_SearchRankedAndCapped ==
    /\ (lastSearch.asked /\ lastSearch.input # <<>>) => SearchAnswerRight
    /\ (lastSearch.asked /\ lastSearch.input = <<>>) =>
            (~lastSearch.result.found /\ "matches" \notin DOMAIN lastSearch.result)

\* a query with one exact and two partial matches, the first key of the file a
\* partial one: the capped list starts with the exact match and counts three
C12_Witness ==
    /\ lastSearch.asked /\ lastSearch.result.found
    /\ lastSearch.result.total_matches = 3
    /\ Len(lastSearch.result.matches) = max_matches
    /\ lastSearch.result.matches[1].match_type = "exact"
    /\ lastSearch.result.matches[2].match_type = "partial"
    /\ PartialFor(lastSearch.over.keys[1])

-----------------------------------------------------------------------------
(* Properties of the index-name validation, checked under SpecIndex.           *)

\* C13: validate_index_name answers valid exactly for the inputs that are equal,
\* character by character, to a name of the fixed set, and that set holds the
\* corrected display names together with the legacy variants.
C13_AcceptsUnionOfNames ==
    lastIndexQuery.asked =>
        (lastIndexQuery.result.valid
            <=> lastIndexQuery.input \in IndexNames \cup LegacyIndexNames)

-----------------------------------------------------------------------------
(* Properties of the updater, checked under SpecUpdater.                       *)

\* C14: whenever a run of update_stock_map returns False (health check not
\* confirmed, a fetch failed, processing failed, or the save failed) the file
\* holds what it held when the run began; a run that ends on the health check
\* has fetched nothing.
C14_FileKeptOnFailure ==
    (upd.pc = "done" /\ ~upd.result) =>
        /\ stockmap_file = upd.before
        /\ upd.failed = "health" => upd.fetched = 0

-----------------------------------------------------------------------------
(* Properties of a WebSocket connection, checked under SpecWs.                 *)

\* a message of the shape {route, params, messageId}
WellShaped(frame) ==
    /\ frame.text = "object"
    /\ frame.route # "absent"
    /\ frame.params \in {"empty", "AB", "AA"}
    /\ frame.has_id

\* C15: every frame sent in answer to a message of the shape {route, params,
\* messageId} carries that message's own messageId next to data or error, and no
\* frame sent carries the messageId of another message.
C15_ResponseCarriesOwnId ==
    ws.lastSent.n # 0 =>
        /\ WellShaped(ws.lastSent.frame) =>
                /\ "messageId" \in DOMAIN ws.lastSent.response
                /\ ws.lastSent.response.messageId = [id |-> ws.lastSent.n]
                /\ \/ "data" \in DOMAIN ws.lastSent.response
                   \/ "error" \in DOMAIN ws.lastSent.response
        /\ "messageId" \in DOMAIN ws.lastSent.response =>
                \/ ws.lastSent.response.messageId = None
                \/ ws.lastSent.response.messageId = [id |-> ws.lastSent.n]

\* the last message taken was answered with an error for one of the four causes
AnsweredFault ==
    \/ ~ws.lastSent.allowed
    \/ ws.lastSent.frame.text = "invalid"
    \/ ws.lastSent.frame.text = "object" /\ ws.lastSent.frame.route \notin route_handlers
    \/ ws.lastSent.raised

\* C16: the connection takes its messages one at a time in the order they
\* arrived, and has sent exactly one frame for each before it takes the next; a
\* rate-limit rejection, invalid JSON, an unknown route or a handler that raised
\* is answered with an error frame, and the connection stays open.
C16_OneResponseEachInOrder ==
    /\ ws.pc \in {"waiting", "handling"}
    /\ ws.pc = "waiting" => ws.sent = ws.taken
    /\ ws.pc = "handling" => (ws.sent = ws.taken - 1 /\ ws.current.n = ws.taken)
    /\ \A i \in DOMAIN ws.inbox : ws.inbox[i].n = ws.taken + i
    /\ ws.sent > 0 =>
            /\ ws.lastSent.n = ws.sent
            /\ AnsweredFault => is_error(ws.lastSent.response)

\* three messages answered in turn, the third with data after two error frames
C16_Witness ==
    /\ ws.pc = "waiting"
    /\ ws.sent = 3
    /\ ws.errors = 2
    /\ ws.lastSent.n = 3
    /\ ~is_error(ws.lastSent.response)

-----------------------------------------------------------------------------
(* Properties of the queue-protocol listener, checked under SpecZmq.           *)

\* C17: between two receives the listener has sent exactly one reply for every
\* message it received, also when the route handler raised; it never sends
\* without a message received.
C17_StrictAlternation ==
    /\ zmq.pc = "handling" => zmq.replied = zmq.received - 1
    /\ zmq.pc # "handling" => zmq.replied = zmq.received

\* a message that is malformed, names no known route or met a failure
Faulty(frame, reply) ==
    \/ frame.text # "object"
    \/ frame.route \notin route_handlers
    \/ frame.params = "list"
    \/ "payload" \notin DOMAIN reply

\* C18: the serving loop goes on after every message, and a message that is
\* malformed, names an unknown route or met a failure is answered with an error
\* payload.
C18_ServingLoopSurvives ==
    /\ zmq.pc # "stopped"
    /\ zmq.lastReply.n # 0 =>
            (Faulty(zmq.lastReply.frame, zmq.lastReply.reply)
                => "error" \in DOMAIN zmq.lastReply.reply)

\* the WebSocket half of C18, under SpecWs: the connection stays open, and a
\* message that is no JSON object, failed validation or met an upstream failure
\* is answered with an error frame
WsLoopSurvives ==
    /\ ws.pc # "closed"
    /\ ws.lastSent.n # 0 =>
            ((\/ ws.lastSent.frame.text # "object"
              \/ ws.lastSent.frame.params \in {"AA", "list"}
              \/ ws.lastSent.raised)
                => is_error(ws.lastSent.response))

-----------------------------------------------------------------------------
(* Properties of the HTTP responses, checked under SpecHttp.                   *)

RateLimitHeaders ==
    {"X-RateLimit-Limit", "X-RateLimit-Remaining", "X-RateLimit-Reset", "X-RateLimit-Category"}

\* C19: every HTTP response, admitted or rejected and whatever the route did,
\* carries the four rate-limit headers and Access-Control-Allow-Origin; a
\* rejected request is answered 429 with Retry-After.
C19_HeadersOnEveryResponse ==
    http.answered =>
        /\ RateLimitHeaders \subseteq DOMAIN http.response.headers
        /\ "Access-Control-Allow-Origin" \in DOMAIN http.response.headers
        /\ ~http.allowed =>
                (http.response.status = 429 /\ "Retry-After" \in DOMAIN http.response.headers)

-----------------------------------------------------------------------------
(* Properties of the market-state tools, checked under SpecTools.              *)

\* the state that keeps the tool from answering with data
WrongState(tool) == IF needs_open(tool) THEN "CLOSE" ELSE "OPEN"

MarketStateErrors == {MarketClosedError, MarketOpenError}

\* C20: a tool with a market-state precondition answers with the market-state
\* error exactly when the market state the upstream reports at the time of the
\* call is the wrong one for it, and never with data then; when the state could
\* not be determined the answer is an error that is not the market-state error.
C20_MarketStateErrorExactlyWhenWrong ==
    (mcp.last.called /\ mcp.last.tool \in ToolNames) =>
        /\ mcp.last.status # "failed" =>
                (mcp.last.result \in MarketStateErrors
                    <=> mcp.last.market = WrongState(mcp.last.tool))
        /\ mcp.last.market = WrongState(mcp.last.tool) =>
                "results" \notin DOMAIN mcp.last.result
        /\ mcp.last.status = "failed" =>
                /\ "error" \in DOMAIN mcp.last.result
                /\ mcp.last.result \notin MarketStateErrors

-----------------------------------------------------------------------------
(* The symbol a symbol-parameterised route hands to the upstream call.        *)

\* the data and the symbols the validator of the process answers from: what it
\* loaded at its first lookup, or what a first lookup would load now
held_data == IF stock_data = None THEN load_stock_data(stockmap_file) ELSE stock_data
held_symbols == IF stock_symbols = None THEN held_data.keys ELSE stock_symbols.list

\* socketServer.py: params is rebuilt with validation_result["symbol"] before the
\* lambda of the route reads params.get("symbol")
ws_upstream_symbol(params) ==
    validate_stock_or_return_error(held_data, held_symbols, params.symbol).symbol

\* zmqServer.py: the lambda of the route reads params.get("symbol") of the
\* message as it came (None, written <<>>, when the key is absent)
zmq_upstream_symbol(params) == params.symbol

\* the canonical form of a symbol the validator accepts
CanonicalAccepted(symbol) ==
    LET validation_result == validate_stock_symbol(held_data, held_symbols, symbol)
    IN validation_result.valid /\ validation_result.symbol = symbol

\* C21: in every binding a symbol route awaits the upstream call only with the
\* canonical form of a symbol the validator accepted, and a missing or invalid
\* symbol is answered with a validation error without an upstream call.
C21_UpstreamOnlyWithValidatedSymbol ==
    /\ zmq.pc = "handling" /\ zmq.route \in symbol_routes
            => CanonicalAccepted(zmq_upstream_symbol(get_params(zmq.current)))
    /\ ws.pc = "handling" /\ ws.current.frame.route \in symbol_routes
            => CanonicalAccepted(ws_upstream_symbol(get_params(ws.current.frame)))
    /\ http.answered /\ http.allowed /\ http.request.path = "/CompanyDetails"
            => IF CanonicalAccepted(NormalForm(http.request.symbol))
               THEN http.response.status # 400
               ELSE http.response.status = 400 /\ ~http.raised
    /\ mcp.last.called /\ takes_symbol(mcp.last.tool)
        /\ ~CanonicalAccepted(NormalForm(mcp.last.symbol))
            => "error" \in DOMAIN mcp.last.result
    /\ \A th \in ToolThreads :
            mcp.threads[th].pc \in {"validated", "data_lookup", "data_upstream", "data_store"}
            /\ takes_symbol(mcp.threads[th].tool)
                => /\ CanonicalAccepted(NormalForm(mcp.threads[th].symbol))
                   /\ mcp.threads[th].endpoint
                        = data_endpoint(mcp.threads[th].tool, NormalForm(mcp.threads[th].symbol))
-----------------------------------------------------------------------------
(* Properties of single admit checks, checked under SpecSweep (pauses longer  *)
(* than the cleanup interval) and Spec.                                       *)

\* the step is an admit check: `last` describes it afterwards
CheckStep ==
    /\ ncalls' = ncalls + 1
    /\ admitted' # admitted \/ nrejected' = nrejected + 1

\* the timestamps of a window that are not older than the window at time t
NotExpired(times, t) == SelectSeq(times, LAMBDA x : x >= t - window_ticks)

\* client i of process p has not been seen for more than the cleanup interval
\* when client ip is checked, and more clients than the threshold are tracked
SweptAt(p, i, ip) ==
    /\ i # ip
    /\ i \in DOMAIN last_cleanup[p]
    /\ last_cleanup[p][i] < now - cleanup_ticks
    /\ Cardinality(DOMAIN last_cleanup[p] \cup {ip}) > cleanup_threshold

\* the checked window after the step: purged, with the timestamp of the check
\* appended exactly when the check admitted
CheckedWindowRight ==
    LET times == requests[last'.proc][last'.ip][last'.endpoint]
    IN requests'[last'.proc][last'.ip][last'.endpoint] =
            IF last'.allowed THEN Append(NotExpired(times, now), now)
            ELSE NotExpired(times, now)

\* C22 as stated: a rejected check leaves its window as purged and every other
\* window of every client and endpoint as it was.
C22_RejectedCheckAsStated ==
    [][CheckStep /\ ~last'.allowed =>
        /\ CheckedWindowRight
        /\ \A k \in Keys : k # <<last'.proc, last'.ip, last'.endpoint>>
                => requests'[k[1]][k[2]][k[3]] = requests[k[1]][k[2]][k[3]]]_vars

\* C22: a rejected check records nothing: its window holds the timestamps left
\* by the purge and no other; only an admitted check appends its timestamp; every
\* other window is unchanged, except that the windows of a client the sweep of
\* this check drops (idle for more than the cleanup interval) are emptied.
C22_RejectedCheckRecordsNothing ==
    [][CheckStep =>
        /\ CheckedWindowRight
        /\ \A k \in Keys : k # <<last'.proc, last'.ip, last'.endpoint>>
                => IF k[1] = last'.proc /\ SweptAt(k[1], k[2], last'.ip)
                   THEN requests'[k[1]][k[2]][k[3]] = <<>>
                   ELSE requests'[k[1]][k[2]][k[3]] = requests[k[1]][k[2]][k[3]]]_vars

\* a rejected check whose sweep dropped the window of another client
C22_Witness ==
    /\ last.called /\ ~last.allowed
    /\ requests[last.proc][last.ip][last.endpoint] # <<>>
    /\ \E i \in Clients \ {last.ip} :
            /\ i \notin DOMAIN last_cleanup[last.proc]
            /\ admitted[last.proc][i][last.endpoint] # <<>>
            /\ requests[last.proc][i][last.endpoint] = <<>>
            /\ Len(admitted[last.proc][last.ip][last.endpoint]) = 1
\* the checked window after a check at time now: every timestamp within the
\* window that ends now, in non-decreasing order
CheckedWindowBounded ==
    LET times == requests'[last'.proc][last'.ip][last'.endpoint]
    IN /\ \A i \in DOMAIN times : now - window_ticks <= times[i] /\ times[i] <= now
       /\ \A i, j \in DOMAIN times : i <= j => times[i] <= times[j]

\* window k loses a timestamp in the step
LosesEntry(k) ==
    \E i \in DOMAIN requests[k[1]][k[2]][k[3]] :
        \A j \in DOMAIN requests'[k[1]][k[2]][k[3]] :
            requests'[k[1]][k[2]][k[3]][j] # requests[k[1]][k[2]][k[3]][i]

\* C23 as stated: after a check its window is bounded and ordered, and a window
\* loses entries only in a check of that same window.
C23_LazyPurgeAsStated ==
    [][/\ CheckStep => CheckedWindowBounded
       /\ \A k \in Keys : LosesEntry(k)
            => CheckStep /\ k = <<last'.proc, last'.ip, last'.endpoint>>]_vars

\* C23: after every check at time now the timestamps of the checked window lie
\* in [now - 60, now] in non-decreasing order; a window loses entries only in a
\* check: of that same window (the expired ones), or of another client of the
\* process whose sweep drops the idle client with all its windows.
C23_WindowBoundedLazyPurge ==
    [][/\ CheckStep => CheckedWindowBounded
       /\ \A k \in Keys : LosesEntry(k)
            => /\ CheckStep
               /\ \/ k = <<last'.proc, last'.ip, last'.endpoint>>
                  \/ k[1] = last'.proc /\ SweptAt(k[1], k[2], last'.ip)]_vars

\* a check has purged its window while another window still holds a timestamp
\* older than the window
C23_Witness ==
    /\ last.called /\ last.time = now
    /\ Len(admitted[last.proc][last.ip][last.endpoint])
            > Len(requests[last.proc][last.ip][last.endpoint])
    /\ \E k \in Keys :
            /\ k # <<last.proc, last.ip, last.endpoint>>
            /\ \E i \in DOMAIN requests[k[1]][k[2]][k[3]] :
                    requests[k[1]][k[2]][k[3]][i] < now - window_ticks
\* C24: a check of the same client and endpoint that follows a rejection with no
\* check in between, at or after the reset instant the rejection reported, admits.
C24_RetryAtResetAdmitted ==
    [][/\ CheckStep
       /\ last.called /\ ~last.allowed
       /\ last'.proc = last.proc /\ last'.ip = last.ip /\ last'.endpoint = last.endpoint
       /\ now >= last.info.reset_time * TicksPerSecond
       => last'.allowed]_vars
\* the clients of process p whose last check is more than the cleanup interval
\* before the check of client ip at time now
IdleClients(p, ip) ==
    {i \in DOMAIN last_cleanup[p] \ {ip} : now - last_cleanup[p][i] > cleanup_ticks}

\* the clients the check of client ip drops: the idle ones when, with ip, more
\* clients than the threshold are tracked, and none otherwise
Dropped(p, ip) ==
    IF Cardinality(DOMAIN last_cleanup[p] \cup {ip}) > cleanup_threshold
    THEN IdleClients(p, ip) ELSE {}

\* C25: the sweep of a check drops exactly the clients not seen for more than
\* 300 seconds, windows and last-seen record together, and only when more clients
\* than the threshold are tracked; every other client keeps its record, the
\* checked client is marked seen now, and the decision of the check is the one
\* its own purged window gives.
C25_SweepDropsExactlyIdleClients ==
    [][CheckStep =>
        LET p == last'.proc
            ip == last'.ip
        IN /\ DOMAIN last_cleanup'[p] = (DOMAIN last_cleanup[p] \cup {ip}) \ Dropped(p, ip)
           /\ last_cleanup'[p][ip] = now
           /\ \A i \in DOMAIN last_cleanup'[p] \ {ip} : last_cleanup'[p][i] = last_cleanup[p][i]
           /\ \A i \in Dropped(p, ip), e \in Endpoints : requests'[p][i][e] = <<>>
           /\ \A i \in Clients \ (Dropped(p, ip) \cup {ip}), e \in Endpoints :
                    requests'[p][i][e] = requests[p][i][e]
           /\ last'.allowed =
                    (Len(NotExpired(requests[p][ip][last'.endpoint], now)) < LimitOf(last'.endpoint))
           /\ CheckedWindowRight]_vars

\* an admitted check whose sweep dropped the other client, which had a window
C25_Witness ==
    /\ last.called /\ last.allowed /\ last.time = now
    /\ DOMAIN last_cleanup[last.proc] = {last.ip}
    /\ \E i \in Clients \ {last.ip}, e \in Endpoints :
            /\ admitted[last.proc][i][e] # <<>>
            /\ requests[last.proc][i][e] = <<>>
            /\ now - admitted[last.proc][i][e][Len(admitted[last.proc][i][e])] > cleanup_ticks
-----------------------------------------------------------------------------
(* The aggregation when a sector or its sub-index label is not known.          *)

SectorsOf(got) == {got[1][i].sectorName : i \in DOMAIN got[1]}

\* the sector has no entry in the mapping table, or the label it maps to (its
\* own name when it has no entry) is not among the fetched sub-indices
Affected(got, sector) ==
    \/ sector \notin DOMAIN sector_mapper
    \/ \A i \in DOMAIN got[8] : got[8][i].index # sector_mapper[sector]

\* C26: when a sector of a listed company is affected the aggregation still
\* completes in every binding, and returns scripsDetails and every sector that
\* is not affected.
C26_AggregationSurvivesUnknownSector ==
    agg.pc = "done" /\ (\E sector \in SectorsOf(agg.got) : Affected(agg.got, sector))
        => /\ agg.result.ok
           /\ DOMAIN agg.result.scripsDetails = {k \in CompanySymbols(agg.got) : Trading(agg.got, k)}
           /\ \A sector \in SectorsOf(agg.got) :
                    ~Affected(agg.got, sector) => sector \in DOMAIN agg.result.sectorsDetails
-----------------------------------------------------------------------------
(* The lifetime of the loaded snapshot, checked under SpecValThreads: the      *)
(* validator of mcp_server.py, whose tools run on threads.                     *)

\* C27: the validator reads the file at most once: what it holds after the first
\* load (the empty set after a failed load included) never changes, and two
\* queries of the process with the same input get the same result, whatever
\* was written to the file in between.
C27_LoadedOnceThenStable ==
    /\ [][/\ stock_data # None => stock_data' = stock_data
          /\ stock_symbols # None => stock_symbols' = stock_symbols]_vars
    /\ [](keptQuery.asked /\ lastQuery.asked /\ keptQuery.input = lastQuery.input
            => keptQuery.result = lastQuery.result)
-----------------------------------------------------------------------------
(* paginate_list *)

\* the limit and the page the call works with
EffectiveLimit(limit) ==
    IF limit.kind = "none" \/ ~isinstance_int(limit) \/ limit.v <= 0 THEN 10 ELSE limit.v
EffectivePage(page) ==
    IF page.kind = "none" \/ ~isinstance_int(page) \/ page.v <= 0 THEN 1 ELSE page.v

\* the number of the last page that holds an item: ceil(total / L)
LastPage(total, L) == (total + L - 1) \div L

\* items[lo .. hi), indices from 0, as far as the list goes
Range(items, lo, hi) ==
    LET a == IF lo < Len(items) THEN lo ELSE Len(items)
        b == IF hi < Len(items) THEN hi ELSE Len(items)
    IN  [i \in 1..(b - a) |-> items[a + i]]

\* the pages from..to of the list, one after the other
RECURSIVE PagesConcat(_, _, _, _)
PagesConcat(items, limit, from, to) ==
    IF from > to THEN <<>>
    ELSE paginate_list(items, limit, IntArg(from)).paged_items
         \o PagesConcat(items, limit, from + 1, to)

\* C28: paginate_list partitions its input. With effective limit L (10 when limit
\* is None, not an int or <= 0) and effective page p (1 when page is None, not an
\* int or <= 0) the page returned is items[(p-1)*L .. p*L), total is the length of
\* the whole list, the limit and the page returned are L and p, the pages
\* 1..ceil(total/L) one after the other are the list, each item once and in order,
\* and every page beyond the last is empty.
C28_PaginatePartitions ==
    paged.called =>
        LET items == paged.items
            L == EffectiveLimit(paged.limit)
            p == EffectivePage(paged.page)
            total == Len(items)
            r == paged.result
        IN  /\ r.paged_items = Range(items, (p - 1) * L, p * L)
            /\ r.total = total
            /\ r.limit.v = L /\ r.page.v = p
            /\ PagesConcat(items, paged.limit, 1, LastPage(total, L)) = items
            /\ \A q \in (LastPage(total, L) + 1)..(LastPage(total, L) + MaxPage + 1) :
                   paginate_list(items, paged.limit, IntArg(q)).paged_items = <<>>
            /\ p > LastPage(total, L) => r.paged_items = <<>>

\* the second and last page of a list longer than the default limit, asked for
\* without a usable limit: it holds the items after the tenth
C28_Witness ==
    /\ paged.called
    /\ ~isinstance_int(paged.limit) \/ paged.limit.v <= 0
    /\ paged.page = IntArg(2)
    /\ Len(paged.items) > DefaultLimit
    /\ paged.result.paged_items # <<>>
    /\ Len(paged.result.paged_items) < DefaultLimit
    /\ paged.result.total = Len(paged.items)
-----------------------------------------------------------------------------
(* Concurrent callers of fetch_nepse_api, checked under SpecCacheRace.  The time *)
(* of a call is the clock reading it takes on entry.                            *)

\* the entry of path p is absent, or the pair the last storing call wrote, whole
EntryIntact(p) ==
    endpoint_cache[p] # None =>
        /\ win[p] # None
        /\ endpoint_cache[p].born = win[p].start
        /\ endpoint_cache[p].data = win[p].payload
        /\ endpoint_cache[p].expires_at = endpoint_cache[p].born + 600
        /\ endpoint_cache[p].born <= clock
        /\ endpoint_cache[p].data \in 0..upstream

\* caller c leaves the first locked block
LeavesLookup(c) == call[c].pc = "lookup" /\ call'[c].pc # "lookup"

\* under any interleaving the map holds for a path nothing or the whole pair one
\* call stored, and no call fails in the lookup because the entry it would evict
\* is already gone: a lookup serves the entry, or removes an expired one, or
\* finds none and touches nothing, and goes to the upstream
MapAndLookupSafe ==
    /\ [](\A p \in Paths : EntryIntact(p))
    /\ [](lastFetch.done => lastFetch.outcome \in {"hit", "fetched", "error"})
    /\ [](lastFetch.done /\ lastFetch.outcome = "hit"
            => lastFetch.payload = lastFetch.served.data)
    /\ [][\A c \in Callers : LeavesLookup(c) =>
            LET p == call[c].path
                cached == endpoint_cache[p]
            IN  /\ \A q \in Paths \ {p} : endpoint_cache'[q] = endpoint_cache[q]
                /\ \/ /\ cached # None /\ call[c].now < cached.born + 600
                      /\ call'[c].pc = "idle" /\ lastFetch'.outcome = "hit"
                      /\ lastFetch'.payload = cached.data
                      /\ endpoint_cache'[p] = cached
                   \/ /\ cached # None /\ call[c].now >= cached.born + 600
                      /\ call'[c].pc = "upstream" /\ endpoint_cache'[p] = None
                   \/ /\ cached = None
                      /\ call'[c].pc = "upstream" /\ endpoint_cache'[p] = None]_vars

\* C29 (as stated): under any interleaving of fetch_nepse_api calls for the same
\* path the map is never corrupted and no call fails because another caller
\* already evicted the entry, and a payload is never served from the cache at or
\* later than 600 seconds after the start of the call that fetched it: the
\* instant of serving is the clock when the hit leaves the locked block.
C29_ServedWithinTtlOfFetch ==
    /\ MapAndLookupSafe
    /\ [](lastFetch.done /\ lastFetch.outcome = "hit"
            => lastFetch.returned < lastFetch.served.born + 600)

\* C29: under any interleaving of fetch_nepse_api calls for the same path, each
\* of which may call the upstream on a miss, the map is never corrupted and no
\* call fails because another caller already evicted the entry, and no payload is
\* served to a call that read the clock, on entry, 600 seconds or more after the
\* start of the call that fetched it.  The instant at which the payload is
\* handed over is not bounded: the hit test compares the entry reading only.
C29_ConcurrentCallsSafe ==
    /\ MapAndLookupSafe
    /\ [](lastFetch.done /\ lastFetch.outcome = "hit"
            => lastFetch.start < lastFetch.served.born + 600)

\* two callers entered after the stored entry had expired; one lookup removed the
\* entry, the other found none, and both are calling the upstream
C29_Witness ==
    \E c \in Callers : \E o \in Callers \ {c} :
        /\ call[c].pc = "upstream" /\ call[o].pc = "upstream"
        /\ call[c].path = call[o].path
        /\ overlap[call[c].path]
        /\ call[c].opened # None /\ call[o].opened # None
        /\ call[c].now >= call[c].opened.start + ENDPOINT_CACHE_TTL
        /\ call[o].now >= call[o].opened.start + ENDPOINT_CACHE_TTL
        /\ endpoint_cache[call[c].path] = None
-----------------------------------------------------------------------------
(* The validator's first load while the updater saves, checked under SpecVal *)

\* C30: an updater run that interleaves with the validator's first (lazy) load
\* never makes the validator hold a truncated or partially written snapshot: what
\* the first load keeps for the life of the process is the complete content of
\* the file as it was before the update or as it is after it, never an empty or
\* partial set read in the middle of the write.
C30_FirstLoadReadsCompleteFile ==
    [][(stock_data = None /\ stock_data' # None)
        => /\ stockmap_file.state = "written"
           /\ stock_data'.dict = stockmap_file.dict
           /\ stock_data'.keys = stockmap_file.keys]_vars
====
